---- MODULE Spec2Model ----
(***************************************************************************)
(* Model of the command-execution session pipeline of mcp-docker-exec:     *)
(* CircularBuffer, SecurityManager.checkCommand, ExecSession and the       *)
(* DockerManager session orchestration.                                    *)
(*                                                                         *)
(* The specifications share the module's variables:                        *)
(*   SpecBuffer    a CircularBuffer under arbitrary pushes                 *)
(*   SpecSecurity  SecurityManager.checkCommand over a request catalogue   *)
(*   SpecRateLimit concurrent checkCommand calls on the rate limiter       *)
(*   SpecDemux     StreamDemuxer.demuxStream over split byte streams       *)
(*   SpecSession   one ExecSession from construction to its end            *)
(*   Spec          DockerManager.exec / ExecSession life cycle             *)
(* Each one holds the variables of the others at their initial values.     *)
(***************************************************************************)
EXTENDS Integers, Sequences, FiniteSets, TLC

VARIABLES
    cbuf,        \* the CircularBuffer object under SpecBuffer
    cbPushed,    \* the items pushed so far, oldest first (history)
    \* ---- DockerManager (Spec) ----
    maxConcurrentExecs,  \* config.maxConcurrentExecs
    pc,                  \* where each exec request is
    limitQueue,          \* p-limit's queue of waiting calls, oldest first
    activeCount,         \* p-limit's count of running calls
    execSessions,        \* the live-session table, in insertion order
    aborted,             \* each session's abortController.signal.aborted
    startTime,           \* each session's startTime
    now,                 \* the clock
    result,              \* what each exec call returned
    sweep,               \* the staleness sweep in flight
    sessionCleanupInterval,  \* whether the sweep interval is armed
    cleanup,             \* DockerManager.cleanup in flight
    \* ---- one ExecSession (SpecSession) ----
    params,              \* the session's params: stream, timeoutMs
    configMaxBytes,      \* config.maxBytes
    spc,                 \* where start() / the streaming generator is
    outputBytes,         \* this.outputBytes
    exitCode,            \* this.exitCode: "null" or "set"
    stdoutBuffer,        \* this.stdoutBuffer
    stderrBuffer,        \* this.stderrBuffer
    timeoutHandle,       \* the timeout timer: none, armed, fired, cleared
    signalAborted,       \* this.abortController.signal.aborted
    cleanupTimeouts,     \* this.cleanupTimeouts: abort calls whose force-kill timer is held
    abortCalls,          \* every call of abort(): where it is and what it did
    forceKill,           \* the force-kill callback of each abort call
    procRunning,         \* the runtime: the exec's process is running
    sresult,             \* what start() returned, or the last record of the generator
    chunks,              \* number of chunks read so far
    timedOut,            \* the timer fired while the stream was still open
    \* ---- SecurityManager (SpecSecurity) ----
    secConfig,           \* config.security
    secCheck,            \* the last call of checkCommand and its result
    parseInput,          \* the command string parse is called with
    parseResult,         \* what parse returned
    \* ---- the rate limiter behind checkCommand (SpecRateLimit) ----
    rateLimits,          \* config.rateLimits
    counts,              \* InMemoryRateLimiter.counts
    clock,               \* Date.now(), in ticks
    calls,               \* the concurrent calls of checkCommand
    logsAccess,          \* the calls of checkLogsAccess: how many, the last result
    rateWindows,         \* per key, the windows so far: checks made and passed (history)
    redisKeys,           \* the keys a RedisRateLimiter holds when it serves the same checks
    \* ---- StreamDemuxer.demuxStream (SpecDemux) ----
    stream,              \* the bytes the source stream has not delivered yet
    chunkSize,           \* demuxStream's chunkSize
    buffer,              \* let buffer
    isMultiplexed,       \* let isMultiplexed: "null", TRUE or FALSE
    corruptionDetected,  \* let corruptionDetected
    dpc,                 \* where the generator is suspended
    payload,             \* const payload of the frame being emitted
    offset,              \* let offset into payload
    channel,             \* const channel of the frame being emitted
    yielded,             \* the chunks yielded so far (history)
    reads,               \* the number of reads delivered so far
    segments,            \* what the runtime sends, whole (history)
    held,                \* the largest buffer.length so far (history)
    gaveUp,              \* the recovery scan found no header and the rest was yielded (history)
    \* ---- CircuitBreaker (SpecBreaker) ----
    options,             \* this.options: failureThreshold, successThreshold, resetTimeout
    state,               \* this.state
    failures,            \* this.failures
    successes,           \* this.successes
    nextAttempt,         \* this.nextAttempt
    brkNow,              \* Date.now(), in ticks
    ops,                 \* the calls of execute: where each is, how it ended
    brkLog,              \* the last event of the breaker and counts over the past (history)
    \* ---- the tool-call handler for docker_exec (SpecHandler) ----
    auditEnabled,        \* config.audit.enabled
    closed,              \* AuditLogger.closed
    writeQueue,          \* AuditLogger.writeQueue
    toolCalls,           \* the docker_exec requests: where each is, how it ended
    runtimeExecs         \* the requests for which the runtime was asked to create an exec (history)

bufVars == <<cbuf, cbPushed>>

mgrVars == <<maxConcurrentExecs, pc, limitQueue, activeCount,
             execSessions, aborted, startTime, now, result, sweep,
             sessionCleanupInterval, cleanup>>

sesVars == <<params, configMaxBytes, spc, outputBytes, exitCode, stdoutBuffer,
             stderrBuffer, timeoutHandle, signalAborted, cleanupTimeouts,
             abortCalls, forceKill, procRunning, sresult, chunks, timedOut>>

secVars == <<secConfig, secCheck, parseInput, parseResult>>

rateVars == <<rateLimits, counts, clock, calls, logsAccess, rateWindows, redisKeys>>

dmxVars == <<stream, chunkSize, buffer, isMultiplexed, corruptionDetected, dpc,
             payload, offset, channel, yielded, reads, segments, held, gaveUp>>

brkVars == <<options, state, failures, successes, nextAttempt, brkNow, ops, brkLog>>

hdlVars == <<auditEnabled, closed, writeQueue, toolCalls, runtimeExecs>>

vars == <<cbuf, cbPushed, maxConcurrentExecs, pc, limitQueue,
          activeCount, execSessions, aborted, startTime, now, result, sweep,
          sessionCleanupInterval, cleanup,
          params, configMaxBytes, spc, outputBytes, exitCode, stdoutBuffer,
          stderrBuffer, timeoutHandle, signalAborted, cleanupTimeouts,
          abortCalls, forceKill, procRunning, sresult, chunks, timedOut,
          secConfig, secCheck, parseInput, parseResult,
          rateLimits, counts, clock, calls, logsAccess, rateWindows, redisKeys,
          stream, chunkSize, buffer, isMultiplexed, corruptionDetected, dpc,
          payload, offset, channel, yielded, reads, segments, held, gaveUp,
          options, state, failures, successes, nextAttempt, brkNow, ops, brkLog,
          auditEnabled, closed, writeQueue, toolCalls, runtimeExecs>>

----------------------------------------------------------------------------
(* Helpers *)

Min(a, b) == IF a < b THEN a ELSE b

Max(a, b) == IF a > b THEN a ELSE b

\* the element of a one-element set; {F(x) : x \in {e}} computes e once
TheOne(S) == CHOOSE x \in S : TRUE

----------------------------------------------------------------------------
(* Strings of the buffer model.  A string is abstracted to a run of `len`  *)
(* characters that each take `w` bytes in UTF-8, followed by `tail` ASCII  *)
(* characters (the truncation marker the buffer appends).                  *)

\* bounds of the buffer model
CbMaxItemsBound == 2
CbMaxBytesBound == 28
CbMaxItemLen == 10
CbMaxPushes == 3

\* UTF-8 widths of the characters of a pushed item: ASCII and a BMP character
CharWidths == {1, 3}

\* '\n[TRUNCATED]\n'.length
TruncMarkerLen == 13

Str(len, w) == [len |-> len, w |-> w, tail |-> 0]

\* Buffer.byteLength(item, 'utf8')
ByteLength(item) == item.len * item.w + item.tail

\* item.length (UTF-16 code units)
StrLength(item) == item.len + item.tail

\* item.slice(0, k)
StrSlice(item, k) ==
    [len  |-> Min(item.len, k),
     w    |-> item.w,
     tail |-> Min(item.tail, Max(k - item.len, 0))]

\* item + '\n[TRUNCATED]\n'
StrAppendMarker(item) == [item EXCEPT !.tail = @ + TruncMarkerLen]

RECURSIVE BytesOf(_)
BytesOf(items) ==
    IF items = <<>> THEN 0 ELSE ByteLength(Head(items)) + BytesOf(Tail(items))

----------------------------------------------------------------------------
(* CircularBuffer *)

\* new CircularBuffer(maxItems, maxBytes)
NewCircularBuffer(maxItems, maxBytes) ==
    [buffer |-> <<>>, totalBytes |-> 0, maxItems |-> maxItems, maxBytes |-> maxBytes]

\* an eviction that drops the newest items
CbEvict_Newest(b) ==
    IF Len(b.buffer) > b.maxItems
    THEN [b EXCEPT !.buffer = SubSeq(@, 1, b.maxItems)]
    ELSE b

\* the eviction loop of push: shift while over a limit and more than one item
RECURSIVE CbEvict(_)
CbEvict(b) ==
    IF (Len(b.buffer) > b.maxItems \/ b.totalBytes > b.maxBytes) /\ Len(b.buffer) > 1
    THEN CbEvict([b EXCEPT !.buffer = Tail(@),
                           !.totalBytes = @ - ByteLength(Head(b.buffer))])
    ELSE b

\* the truncated replacement of an item larger than maxBytes
CbTruncate(item, maxBytes) == StrAppendMarker(StrSlice(item, maxBytes \div 2))

\* CircularBuffer.push(item)
CbPush(b, item) ==
    IF ByteLength(item) > b.maxBytes
    THEN LET truncated == CbTruncate(item, b.maxBytes)
         IN  [b EXCEPT !.buffer = <<truncated>>,
                       !.totalBytes = ByteLength(truncated)]
    ELSE CbEvict([b EXCEPT !.buffer = Append(@, item),
                           !.totalBytes = @ + ByteLength(item)])

\* CircularBuffer.getBytes()
CbGetBytes(b) == b.totalBytes


----------------------------------------------------------------------------
(* DockerManager: the concurrency gate, the live-session table, the       *)
(* staleness sweep and shutdown.  An exec request r has session id r.      *)
(* A session's own read loop, timer and kill escalation are modelled in    *)
(* SpecSession; here session.start() is one awaited call that settles.     *)

\* bounds of the orchestration model
NumRequests == 3
MaxConcurrentBound == 2
MaxTime == 2

\* staleThreshold, in clock ticks of the model (one tick is 5 * 60 * 1000 ms)
StaleThreshold == 1

Requests == 1..NumRequests

NoRequest == 0

RECURSIVE SeqRemove(_, _)
SeqRemove(s, x) ==
    IF s = <<>> THEN <<>>
    ELSE IF Head(s) = x THEN SeqRemove(Tail(s), x)
    ELSE <<Head(s)>> \o SeqRemove(Tail(s), x)

SeqRange(s) == {s[i] : i \in 1..Len(s)}

\* Map.set(key, value): a new key goes last, a present key keeps its place
MapSet(table, key) == IF key \in SeqRange(table) THEN table ELSE Append(table, key)

\* Map.delete(key): removing an absent key is a no-op
MapDelete(table, key) == SeqRemove(table, key)

\* the sweep: where it is, the entries it has visited, the session whose
\* abort() it awaits, its Date.now(), and the sessions whose abort() rejected
SweepIdle ==
    [phase |-> "idle", visited |-> {}, awaiting |-> NoRequest, now |-> 0, failed |-> {}]

\* cleanup(): where it is, the abort() promises not yet settled, the
\* sessions it called abort() on and those whose abort() rejected
CleanupIdle == [phase |-> "idle", pending |-> {}, targets |-> {}, failed |-> {}]

MgrIdleWith(limit) ==
    /\ maxConcurrentExecs = limit
    /\ pc = [r \in Requests |-> "idle"]
    /\ limitQueue = <<>>
    /\ activeCount = 0
    /\ execSessions = <<>>
    /\ aborted = [r \in Requests |-> FALSE]
    /\ startTime = [r \in Requests |-> 0]
    /\ now = 0
    /\ result = [r \in Requests |-> "none"]
    /\ sweep = SweepIdle
    /\ sessionCleanupInterval = TRUE
    /\ cleanup = CleanupIdle

\* DockerManager.constructor: pLimit(config.maxConcurrentExecs), the sweep interval
MgrInit == \E limit \in 1..MaxConcurrentBound : MgrIdleWith(limit)

\* shutdown() ends with process.exit: nothing runs once cleanup() has returned
Alive == cleanup.phase # "done"

\* a gate that keeps the slot of a call that has settled
LimitRelease_Keep(count) == count

\* p-limit: a call leaves the gate; the next waiting call may be started
LimitRelease(count) == count - 1

\* a finally block that leaves the session in the table
ExecFinally_Leak(table, r) == table

\* the finally block of DockerManager.exec
ExecFinally(table, r) == MapDelete(table, r)

\* DockerManager.exec up to concurrencyLimit(...): the call is queued in the gate
Submit(r) ==
    /\ cleanup.phase = "idle"    \* shutdown() closes the server before cleanup()
    /\ pc[r] = "idle"
    /\ \A q \in Requests : q < r => pc[q] # "idle"
    /\ pc' = [pc EXCEPT ![r] = "queued"]
    /\ limitQueue' = Append(limitQueue, r)
    /\ UNCHANGED <<maxConcurrentExecs, activeCount, execSessions, aborted,
                   startTime, now, result, sweep, sessionCleanupInterval, cleanup>>
    /\ UNCHANGED <<bufVars, sesVars, secVars, rateVars, dmxVars, brkVars, hdlVars>>

\* a gate that starts a waiting call at once
LimitAdmits_Always == TRUE

\* p-limit starts a waiting call only while fewer than the limit are running
LimitAdmits == activeCount < maxConcurrentExecs

\* p-limit starts the oldest waiting call; the call runs up to its first
\* await, container.exec(...)
LimitDequeue ==
    /\ Alive
    /\ limitQueue # <<>>
    /\ LimitAdmits
    /\ activeCount' = activeCount + 1
    /\ pc' = [pc EXCEPT ![Head(limitQueue)] = "creating"]
    /\ limitQueue' = Tail(limitQueue)
    /\ UNCHANGED <<maxConcurrentExecs, execSessions, aborted,
                   startTime, now, result, sweep, sessionCleanupInterval, cleanup>>
    /\ UNCHANGED <<bufVars, sesVars, secVars, rateVars, dmxVars, brkVars, hdlVars>>

\* container.exec(...) resolved: the session is created, put in the table and
\* session.start() runs up to its first await (startTime is set)
CreateExecOk(r) ==
    /\ Alive
    /\ pc[r] = "creating"
    /\ execSessions' = MapSet(execSessions, r)
    /\ startTime' = [startTime EXCEPT ![r] = now]
    /\ pc' = [pc EXCEPT ![r] = "started"]
    /\ UNCHANGED <<maxConcurrentExecs, limitQueue, activeCount,
                   aborted, now, result, sweep, sessionCleanupInterval, cleanup>>
    /\ UNCHANGED <<bufVars, sesVars, secVars, rateVars, dmxVars, brkVars, hdlVars>>

\* container.exec(...) rejected: the outer catch returns an error result
CreateExecFail(r) ==
    /\ Alive
    /\ pc[r] = "creating"
    /\ pc' = [pc EXCEPT ![r] = "done"]
    /\ result' = [result EXCEPT ![r] = "error"]
    /\ activeCount' = LimitRelease(activeCount)
    /\ UNCHANGED <<maxConcurrentExecs, limitQueue, execSessions,
                   aborted, startTime, now, sweep, sessionCleanupInterval, cleanup>>
    /\ UNCHANGED <<bufVars, sesVars, secVars, rateVars, dmxVars, brkVars, hdlVars>>

\* what session.start() can settle with.  params.stream is read here: a
\* streaming session returns its generator as soon as exec.start (and stdin)
\* resolved; a buffered one returns its result when the read loop and
\* inspect are over; a cancelled result needs an AbortError, raised by the
\* abort signal (the session's own timer or an abort() of the manager); any
\* other error is rethrown
StartOutcomes == {"generator", "completed", "cancelled", "error"}

\* session.start() settled: finally deletes the session, the call returns its
\* result (the error result of the catch block when start threw) and leaves
\* the gate.  startTime is read through the table only.
StartSettles(r, outcome) ==
    /\ Alive
    /\ pc[r] = "started"
    /\ outcome \in StartOutcomes
    /\ execSessions' = ExecFinally(execSessions, r)
    /\ activeCount' = LimitRelease(activeCount)
    /\ result' = [result EXCEPT ![r] = outcome]
    /\ pc' = [pc EXCEPT ![r] = IF outcome = "generator" THEN "streaming" ELSE "done"]
    /\ aborted' = [aborted EXCEPT ![r] = IF outcome = "generator" THEN @ ELSE FALSE]
    /\ startTime' = [startTime EXCEPT ![r] = 0]
    /\ UNCHANGED <<maxConcurrentExecs, limitQueue, now, sweep,
                   sessionCleanupInterval, cleanup>>
    /\ UNCHANGED <<bufVars, sesVars, secVars, rateVars, dmxVars, brkVars, hdlVars>>

\* the generator of a streaming session ran to its end: exec_complete,
\* exec_cancelled (AbortError) or exec_error
StreamOutcomes == {"completed", "cancelled", "error"}

StreamEnds(r, outcome) ==
    /\ Alive
    /\ pc[r] = "streaming"
    /\ outcome \in StreamOutcomes
    /\ pc' = [pc EXCEPT ![r] = "done"]
    /\ result' = [result EXCEPT ![r] = outcome]
    /\ aborted' = [aborted EXCEPT ![r] = FALSE]
    /\ UNCHANGED <<maxConcurrentExecs, limitQueue, activeCount, execSessions,
                   startTime, now, sweep, sessionCleanupInterval, cleanup>>
    /\ UNCHANGED <<bufVars, sesVars, secVars, rateVars, dmxVars, brkVars, hdlVars>>

\* time passes; only the age of a live session is ever read
Tick ==
    /\ Alive
    /\ execSessions # <<>>
    /\ now < MaxTime
    /\ now' = now + 1
    /\ UNCHANGED <<maxConcurrentExecs, pc, limitQueue, activeCount,
                   execSessions, aborted, startTime, result, sweep,
                   sessionCleanupInterval, cleanup>>
    /\ UNCHANGED <<bufVars, sesVars, secVars, rateVars, dmxVars, brkVars, hdlVars>>

----------------------------------------------------------------------------
(* cleanupStaleSessions: for (const [sessionId, session] of execSessions)  *)

\* the entry a Map iteration yields next: the oldest entry not yet visited
SweepNext ==
    LET todo == SelectSeq(execSessions, LAMBDA s : s \notin sweep.visited)
    IN  IF todo = <<>> THEN NoRequest ELSE Head(todo)

\* a sweep that also reaps the sessions at the threshold
IsStale_AtThreshold(s, at) == at - startTime[s] >= StaleThreshold

\* sessionAge > staleThreshold
IsStale(s, at) == at - startTime[s] > StaleThreshold

\* the interval fires: const now = Date.now()
SweepStart ==
    /\ sessionCleanupInterval
    /\ sweep.phase = "idle"
    /\ execSessions # <<>>
    /\ sweep' = [phase |-> "scan", visited |-> {}, awaiting |-> NoRequest, now |-> now,
                 failed |-> {}]
    /\ UNCHANGED <<maxConcurrentExecs, pc, limitQueue, activeCount,
                   execSessions, aborted, startTime, now, result,
                   sessionCleanupInterval, cleanup>>
    /\ UNCHANGED <<bufVars, sesVars, secVars, rateVars, dmxVars, brkVars, hdlVars>>

\* one iteration: a stale session is aborted (the sweep awaits abort()),
\* a younger one is passed over
SweepVisit ==
    /\ Alive
    /\ sweep.phase = "scan"
    /\ SweepNext # NoRequest
    /\ LET s == SweepNext
       IN  IF IsStale(s, sweep.now)
           THEN /\ aborted' = [aborted EXCEPT ![s] = TRUE]
                /\ sweep' = [sweep EXCEPT !.phase = "abort", !.awaiting = s]
           ELSE /\ sweep' = [sweep EXCEPT !.visited = @ \cup {s}]
                /\ UNCHANGED aborted
    /\ UNCHANGED <<maxConcurrentExecs, pc, limitQueue, activeCount,
                   execSessions, startTime, now, result,
                   sessionCleanupInterval, cleanup>>
    /\ UNCHANGED <<bufVars, sesVars, secVars, rateVars, dmxVars, brkVars, hdlVars>>

\* the rest of the try block after await session.abort(): the delete is
\* reached when abort() resolved, the catch block logs when it rejected
ReapSettled(table, s, ok) == IF ok THEN MapDelete(table, s) ELSE table

\* await session.abort() settled; the loop goes on with the next entry
SweepAbortSettled(ok) ==
    /\ Alive
    /\ sweep.phase = "abort"
    /\ execSessions' = ReapSettled(execSessions, sweep.awaiting, ok)
    /\ sweep' = [sweep EXCEPT !.phase = "scan", !.awaiting = NoRequest,
                              !.visited = @ \cup {sweep.awaiting},
                              !.failed = IF ok THEN @ ELSE @ \cup {sweep.awaiting}]
    /\ UNCHANGED <<maxConcurrentExecs, pc, limitQueue, activeCount,
                   aborted, startTime, now, result,
                   sessionCleanupInterval, cleanup>>
    /\ UNCHANGED <<bufVars, sesVars, secVars, rateVars, dmxVars, brkVars, hdlVars>>

\* the iteration is exhausted
SweepEnd ==
    /\ Alive
    /\ sweep.phase = "scan"
    /\ SweepNext = NoRequest
    /\ sweep' = SweepIdle
    /\ UNCHANGED <<maxConcurrentExecs, pc, limitQueue, activeCount,
                   execSessions, aborted, startTime, now, result,
                   sessionCleanupInterval, cleanup>>
    /\ UNCHANGED <<bufVars, sesVars, secVars, rateVars, dmxVars, brkVars, hdlVars>>

----------------------------------------------------------------------------
(* DockerManager.cleanup *)

\* clearInterval, then abort() is called on every session of the table
CleanupBegin ==
    /\ cleanup.phase = "idle"
    /\ sessionCleanupInterval' = FALSE
    /\ aborted' = [r \in Requests |->
                      IF r \in SeqRange(execSessions) THEN TRUE ELSE aborted[r]]
    /\ cleanup' = [phase |-> "aborting", pending |-> SeqRange(execSessions),
                   targets |-> SeqRange(execSessions), failed |-> {}]
    /\ UNCHANGED <<maxConcurrentExecs, pc, limitQueue, activeCount,
                   execSessions, startTime, now, result, sweep>>
    /\ UNCHANGED <<bufVars, sesVars, secVars, rateVars, dmxVars, brkVars, hdlVars>>

\* a .catch that lets the rejection through: the promise never counts as
\* settled for Promise.all
CatchAbort_Rethrow(pending, s, ok) == IF ok THEN pending \ {s} ELSE pending

\* session.abort().catch(...): the promise pushed resolves whether abort()
\* resolved or rejected
CatchAbort(pending, s, ok) == pending \ {s}

\* one of the abort() promises settled
CleanupAbortSettled(s, ok) ==
    /\ cleanup.phase = "aborting"
    /\ s \in cleanup.pending
    /\ cleanup' = [cleanup EXCEPT !.pending = CatchAbort(@, s, ok),
                                  !.failed = IF ok THEN @ ELSE @ \cup {s}]
    /\ UNCHANGED <<maxConcurrentExecs, pc, limitQueue, activeCount,
                   execSessions, aborted, startTime, now, result, sweep,
                   sessionCleanupInterval>>
    /\ UNCHANGED <<bufVars, sesVars, secVars, rateVars, dmxVars, brkVars, hdlVars>>

\* await Promise.all(abortPromises) resolved: this.execSessions.clear()
CleanupFinish ==
    /\ cleanup.phase = "aborting"
    /\ cleanup.pending = {}
    /\ execSessions' = <<>>
    /\ cleanup' = [cleanup EXCEPT !.phase = "done"]
    /\ UNCHANGED <<maxConcurrentExecs, pc, limitQueue, activeCount,
                   aborted, startTime, now, result, sweep,
                   sessionCleanupInterval>>
    /\ UNCHANGED <<bufVars, sesVars, secVars, rateVars, dmxVars, brkVars, hdlVars>>

----------------------------------------------------------------------------
(* ExecSession: one session's start(), its read loop (buffered or          *)
(* streaming), its timeout timer and abort() with the kill escalation.     *)

\* bounds of the session model
MaxBytesCfg == 2
MaxChunkLen == 2
MaxChunks == 2
MaxExternalAborts == 1

\* maxBufferItems / maxBufferBytes of the constructor
BufferedMaxItems == 10000
StreamMaxItems == 100
StreamMaxBytes == 1048576

\* '\n[stdout truncated at ' + ' bytes]' (and the same for stderr), without the number
TruncNoticeBase == 29

Channels == {"stdout", "stderr"}

\* abort() is called by the session's timer (call 0) and by the manager
AbortIds == 0..MaxExternalAborts

TimerCall == 0

RECURSIVE Digits(_)
Digits(n) == IF n < 10 THEN 1 ELSE 1 + Digits(n \div 10)

\* `\n[stdout truncated at ${this.config.configMaxBytes} bytes]`
TruncNotice(cap) == Str(TruncNoticeBase + Digits(cap), 1)

RECURSIVE LengthOf(_)
LengthOf(items) ==
    IF items = <<>> THEN 0 ELSE StrLength(Head(items)) + LengthOf(Tail(items))

\* CircularBuffer.getContents().length
CbContentsLen(b) == LengthOf(b.buffer)

NoCall == [pc |-> "none", repeat |-> FALSE, pid |-> 0, sent |-> {},
           armed |-> FALSE, cleared |-> FALSE, failed |-> FALSE]

NoResult == [kind |-> "none", cancelled |-> FALSE, reason |-> "none",
             outputBytes |-> 0, truncated |-> FALSE, stdout |-> 0, stderr |-> 0]

\* ExecSession.constructor
SesNew(p, cap) ==
    /\ params = p
    /\ configMaxBytes = cap
    /\ spc = "created"
    /\ outputBytes = 0
    /\ exitCode = "null"
    /\ stdoutBuffer = NewCircularBuffer(IF p.stream THEN StreamMaxItems ELSE BufferedMaxItems,
                                        IF p.stream THEN StreamMaxBytes ELSE cap)
    /\ stderrBuffer = NewCircularBuffer(IF p.stream THEN StreamMaxItems ELSE BufferedMaxItems,
                                        IF p.stream THEN StreamMaxBytes ELSE cap)
    /\ timeoutHandle = "none"
    /\ signalAborted = FALSE
    /\ cleanupTimeouts = {}
    /\ abortCalls = [c \in AbortIds |-> NoCall]
    /\ forceKill = [c \in AbortIds |-> "none"]
    /\ procRunning = FALSE
    /\ sresult = NoResult
    /\ chunks = 0
    /\ timedOut = FALSE

SesIdle == SesNew([stream |-> FALSE, timeoutMs |-> FALSE], 1)

SesInit ==
    \E st \in BOOLEAN, tm \in BOOLEAN, cap \in 1..MaxBytesCfg :
        SesNew([stream |-> st, timeoutMs |-> tm], cap)

\* reason: this.params.timeoutMs ? 'timeout' : 'client_cancel'
CancelReason == IF params.timeoutMs THEN "timeout" ELSE "client_cancel"

\* createCancelledResult
CreateCancelledResult ==
    [kind |-> "cancelled", cancelled |-> TRUE, reason |-> CancelReason,
     outputBytes |-> outputBytes, truncated |-> FALSE,
     stdout |-> CbContentsLen(stdoutBuffer), stderr |-> CbContentsLen(stderrBuffer)]

\* outputBytes of the buffered result
ReportedOutputBytes == outputBytes

\* the result handleBuffered returns
BufferedResult ==
    [kind |-> "completed", cancelled |-> FALSE, reason |-> "none",
     outputBytes |-> ReportedOutputBytes, truncated |-> outputBytes > configMaxBytes,
     stdout |-> CbContentsLen(stdoutBuffer), stderr |-> CbContentsLen(stderrBuffer)]

\* the exec_complete / exec_cancelled / exec_error records of the generator;
\* the exec_cancelled record has a reason and no cancelled field
StreamRecord(type) ==
    [kind |-> type, cancelled |-> FALSE,
     reason |-> IF type = "exec_cancelled" THEN CancelReason ELSE "none",
     outputBytes |-> outputBytes, truncated |-> FALSE, stdout |-> 0, stderr |-> 0]

\* start() threw: DockerManager.exec's catch block returns the error result
ErrorResult == [NoResult EXCEPT !.kind = "error"]

\* an exit code recorded whether or not inspect resolved
RecordExitCode_Always(code, ok) == "set"

\* this.exitCode = inspectResult.ExitCode, reached when inspect resolved
RecordExitCode(code, ok) == IF ok THEN "set" ELSE code

\* a clearTimeout that leaves the timer armed
ClearTimeout_Leave(h) == h

\* clearTimeout(timeoutHandle), a no-op on a timer that fired or was never set
ClearTimeout(h) == IF h = "armed" THEN "cleared" ELSE h

\* if (this.params.timeoutMs) timeoutHandle = setTimeout(...)
ArmTimeout == IF params.timeoutMs THEN "armed" ELSE "none"

sesRest == <<params, configMaxBytes>>

\* start(): this.startTime = Date.now(), then await this.exec.start(...)
Start ==
    /\ spc = "created"
    /\ spc' = "execStart"
    /\ UNCHANGED <<sesRest, outputBytes, exitCode, stdoutBuffer, stderrBuffer,
                   timeoutHandle, signalAborted, cleanupTimeouts, abortCalls,
                   forceKill, procRunning, sresult, chunks, timedOut>>
    /\ UNCHANGED <<bufVars, mgrVars, secVars, rateVars, dmxVars, brkVars, hdlVars>>

\* handleStreaming / handleBuffered up to their first await: the timer is
\* armed; a streaming session returns its generator at once
EnterHandler ==
    /\ timeoutHandle' = ArmTimeout
    /\ IF params.stream
       THEN /\ spc' = "genNew"
            /\ sresult' = [NoResult EXCEPT !.kind = "generator"]
       ELSE /\ spc' = "reading"
            /\ UNCHANGED sresult

\* exec.start resolved with the stream; with params.stdin the session first
\* awaits handleStdin
ExecStartOk(hasStdin) ==
    /\ spc = "execStart"
    /\ ~signalAborted
    /\ procRunning' = TRUE
    /\ IF hasStdin
       THEN spc' = "stdin" /\ UNCHANGED <<timeoutHandle, sresult>>
       ELSE EnterHandler
    /\ UNCHANGED <<sesRest, outputBytes, exitCode, stdoutBuffer, stderrBuffer,
                   signalAborted, cleanupTimeouts, abortCalls, forceKill,
                   chunks, timedOut>>
    /\ UNCHANGED <<bufVars, mgrVars, secVars, rateVars, dmxVars, brkVars, hdlVars>>

\* exec.start rejected: an AbortError (the signal was aborted) gives the
\* cancelled result, any other error is rethrown
ExecStartFail ==
    /\ spc = "execStart"
    /\ IF signalAborted
       THEN spc' = "returned" /\ sresult' = CreateCancelledResult
       ELSE spc' = "threw" /\ sresult' = ErrorResult
    /\ UNCHANGED <<sesRest, outputBytes, exitCode, stdoutBuffer, stderrBuffer,
                   timeoutHandle, signalAborted, cleanupTimeouts, abortCalls,
                   forceKill, procRunning, chunks, timedOut>>
    /\ UNCHANGED <<bufVars, mgrVars, secVars, rateVars, dmxVars, brkVars, hdlVars>>

\* handleStdin: the write callback ran without an error (stdin.end()) or with one
StdinDone(ok) ==
    /\ spc = "stdin"
    /\ IF ok
       THEN EnterHandler
       ELSE spc' = "threw" /\ sresult' = ErrorResult /\ UNCHANGED timeoutHandle
    /\ UNCHANGED <<sesRest, outputBytes, exitCode, stdoutBuffer, stderrBuffer,
                   signalAborted, cleanupTimeouts, abortCalls, forceKill,
                   procRunning, chunks, timedOut>>
    /\ UNCHANGED <<bufVars, mgrVars, secVars, rateVars, dmxVars, brkVars, hdlVars>>

\* the process in the container exits (by itself or killed); the stream ends
ProcExit ==
    /\ procRunning
    /\ procRunning' = FALSE
    /\ UNCHANGED <<sesRest, spc, outputBytes, exitCode, stdoutBuffer, stderrBuffer,
                   timeoutHandle, signalAborted, cleanupTimeouts, abortCalls,
                   forceKill, sresult, chunks, timedOut>>
    /\ UNCHANGED <<bufVars, mgrVars, secVars, rateVars, dmxVars, brkVars, hdlVars>>

PushChunk(buf, ch, mine, len) == IF ch = mine THEN CbPush(buf, Str(len, 1)) ELSE buf

\* handleBuffered, one iteration of the read loop: push, count, and past
\* configMaxBytes push the two notices and break
ReadChunk(ch, len) ==
    /\ spc = "reading"
    /\ ~signalAborted
    /\ procRunning
    /\ chunks < MaxChunks
    /\ chunks' = chunks + 1
    /\ outputBytes' = outputBytes + len
    /\ LET out == PushChunk(stdoutBuffer, ch, "stdout", len)
           err == PushChunk(stderrBuffer, ch, "stderr", len)
       IN  IF outputBytes + len > configMaxBytes
           THEN /\ stdoutBuffer' = CbPush(out, TruncNotice(configMaxBytes))
                /\ stderrBuffer' = CbPush(err, TruncNotice(configMaxBytes))
                /\ spc' = "inspect"
           ELSE /\ stdoutBuffer' = out
                /\ stderrBuffer' = err
                /\ spc' = "reading"
    /\ UNCHANGED <<sesRest, exitCode, timeoutHandle, signalAborted,
                   cleanupTimeouts, abortCalls, forceKill, procRunning,
                   sresult, timedOut>>
    /\ UNCHANGED <<bufVars, mgrVars, secVars, rateVars, dmxVars, brkVars, hdlVars>>

\* the stream ended: the loop is left, await this.exec.inspect()
ReadEnd ==
    /\ spc = "reading"
    /\ ~procRunning
    /\ spc' = "inspect"
    /\ UNCHANGED <<sesRest, outputBytes, exitCode, stdoutBuffer, stderrBuffer,
                   timeoutHandle, signalAborted, cleanupTimeouts, abortCalls,
                   forceKill, procRunning, sresult, chunks, timedOut>>
    /\ UNCHANGED <<bufVars, mgrVars, secVars, rateVars, dmxVars, brkVars, hdlVars>>

\* the awaited read rejects: AbortError once the signal is aborted (the
\* cancelled result), another error before (rethrown)
ReadFails ==
    /\ spc = "reading"
    /\ timeoutHandle' = ClearTimeout(timeoutHandle)
    /\ IF signalAborted
       THEN spc' = "returned" /\ sresult' = CreateCancelledResult
       ELSE spc' = "threw" /\ sresult' = ErrorResult
    /\ UNCHANGED <<sesRest, outputBytes, exitCode, stdoutBuffer, stderrBuffer,
                   signalAborted, cleanupTimeouts, abortCalls, forceKill,
                   procRunning, chunks, timedOut>>
    /\ UNCHANGED <<bufVars, mgrVars, secVars, rateVars, dmxVars, brkVars, hdlVars>>

\* handleBuffered: inspect resolved (exit code, clearTimeout, the result) or
\* rejected (clearTimeout, rethrown)
InspectDone(ok) ==
    /\ spc = "inspect"
    /\ timeoutHandle' = ClearTimeout(timeoutHandle)
    /\ exitCode' = RecordExitCode(exitCode, ok)
    /\ IF ok
       THEN /\ spc' = "returned"
            /\ sresult' = BufferedResult
       ELSE /\ spc' = "threw"
            /\ sresult' = ErrorResult
    /\ UNCHANGED <<sesRest, outputBytes, stdoutBuffer, stderrBuffer,
                   signalAborted, cleanupTimeouts, abortCalls, forceKill,
                   procRunning, chunks, timedOut>>
    /\ UNCHANGED <<bufVars, mgrVars, secVars, rateVars, dmxVars, brkVars, hdlVars>>

\* the streaming generator, one iteration of its loop: count, push, yield
GenChunk(ch, len) ==
    /\ spc \in {"genNew", "genReading"}
    /\ ~signalAborted
    /\ procRunning
    /\ chunks < MaxChunks
    /\ chunks' = chunks + 1
    /\ outputBytes' = outputBytes + len
    /\ stdoutBuffer' = PushChunk(stdoutBuffer, ch, "stdout", len)
    /\ stderrBuffer' = PushChunk(stderrBuffer, ch, "stderr", len)
    /\ spc' = "genReading"
    /\ sresult' = StreamRecord("exec_chunk")
    /\ UNCHANGED <<sesRest, exitCode, timeoutHandle, signalAborted,
                   cleanupTimeouts, abortCalls, forceKill, procRunning, timedOut>>
    /\ UNCHANGED <<bufVars, mgrVars, secVars, rateVars, dmxVars, brkVars, hdlVars>>

\* the generator's loop ends with the stream: await self.exec.inspect()
GenEnd ==
    /\ spc \in {"genNew", "genReading"}
    /\ ~procRunning
    /\ spc' = "genInspect"
    /\ UNCHANGED <<sesRest, outputBytes, exitCode, stdoutBuffer, stderrBuffer,
                   timeoutHandle, signalAborted, cleanupTimeouts, abortCalls,
                   forceKill, procRunning, sresult, chunks, timedOut>>
    /\ UNCHANGED <<bufVars, mgrVars, secVars, rateVars, dmxVars, brkVars, hdlVars>>

\* the generator's catch: exec_cancelled for an AbortError, exec_error for
\* any other error; finally clears the timer
GenFails ==
    /\ spc \in {"genNew", "genReading"}
    /\ timeoutHandle' = ClearTimeout(timeoutHandle)
    /\ sresult' = StreamRecord(IF signalAborted THEN "exec_cancelled" ELSE "exec_error")
    /\ spc' = "genDone"
    /\ UNCHANGED <<sesRest, outputBytes, exitCode, stdoutBuffer, stderrBuffer,
                   signalAborted, cleanupTimeouts, abortCalls, forceKill,
                   procRunning, chunks, timedOut>>
    /\ UNCHANGED <<bufVars, mgrVars, secVars, rateVars, dmxVars, brkVars, hdlVars>>

\* the generator's inspect: exec_complete, or exec_error when it rejects
GenInspectDone(ok) ==
    /\ spc = "genInspect"
    /\ timeoutHandle' = ClearTimeout(timeoutHandle)
    /\ exitCode' = RecordExitCode(exitCode, ok)
    /\ sresult' = StreamRecord(IF ok THEN "exec_complete" ELSE "exec_error")
    /\ spc' = "genDone"
    /\ UNCHANGED <<sesRest, outputBytes, stdoutBuffer, stderrBuffer,
                   signalAborted, cleanupTimeouts, abortCalls, forceKill,
                   procRunning, chunks, timedOut>>
    /\ UNCHANGED <<bufVars, mgrVars, secVars, rateVars, dmxVars, brkVars, hdlVars>>

\* start() is in flight: the manager holds the session in its table
InFlight == spc \in {"execStart", "stdin", "reading", "inspect"}

\* the session reached a terminal state
Terminal == spc \in {"returned", "threw", "genDone"}

\* cleanupAllTimeouts: clearTimeout on every held handle, then clear the set
CleanupAllTimeouts(fk) ==
    [c \in AbortIds |->
        IF c \in cleanupTimeouts /\ fk[c] = "pending" THEN "cancelled" ELSE fk[c]]

\* a held force-kill timer has not fired yet
PendingForceKill == \E c \in cleanupTimeouts : forceKill[c] = "pending"

\* abort() up to its first await: abortController.abort(), cleanupAllTimeouts()
AbortBegin(c) ==
    /\ abortCalls[c].pc = "none"
    /\ abortCalls' = [abortCalls EXCEPT ![c] =
           [NoCall EXCEPT !.pc = "inspect", !.repeat = signalAborted,
                          !.cleared = PendingForceKill]]
    /\ signalAborted' = TRUE
    /\ forceKill' = CleanupAllTimeouts(forceKill)
    /\ cleanupTimeouts' = {}

\* the timeout timer fires: () => this.abort()
TimerFires ==
    /\ timeoutHandle = "armed"
    /\ timeoutHandle' = "fired"
    /\ timedOut' = procRunning
    /\ AbortBegin(TimerCall)
    /\ UNCHANGED <<sesRest, spc, outputBytes, exitCode, stdoutBuffer, stderrBuffer,
                   procRunning, sresult, chunks>>
    /\ UNCHANGED <<bufVars, mgrVars, secVars, rateVars, dmxVars, brkVars, hdlVars>>

\* the manager (staleness sweep, cleanup) calls session.abort()
ExternalAbort(c) ==
    /\ c # TimerCall
    /\ InFlight
    /\ AbortBegin(c)
    /\ UNCHANGED <<sesRest, spc, outputBytes, exitCode, stdoutBuffer, stderrBuffer,
                   timeoutHandle, procRunning, sresult, chunks, timedOut>>
    /\ UNCHANGED <<bufVars, mgrVars, secVars, rateVars, dmxVars, brkVars, hdlVars>>

\* a failed step that is rethrown instead of logged
AbortOnFailure_Rethrow(step, pid) == "rejected"

\* an abort() that goes on to the kill after any failed step
AbortOnFailure_KillAnyway(step, pid) == "killCreate"

\* where abort() goes when a step fails: the resize has its own catch and
\* abort() goes on, every other failure ends abort() in a catch that logs
AbortOnFailure(step, pid) ==
    IF step = "resize"
    THEN IF pid > 0 THEN "killCreate" ELSE "resolved"
    ELSE "resolved"

\* how the force-kill callback ends when a step fails: catch, log, finally
ForceKillOnFailure == "done"

sesAbortRest == <<sesRest, spc, outputBytes, exitCode, stdoutBuffer, stderrBuffer,
                  timeoutHandle, signalAborted, sresult, chunks, timedOut>>

\* await this.exec.inspect(): Running and Pid decide what follows
AbortInspect(c, ok, pid) ==
    /\ abortCalls[c].pc = "inspect"
    /\ abortCalls' = [abortCalls EXCEPT ![c] =
           IF ~ok
           THEN [@ EXCEPT !.pc = AbortOnFailure("inspect", 0), !.failed = TRUE]
           ELSE IF procRunning
                THEN [@ EXCEPT !.pc = "resize", !.pid = pid]
                ELSE [@ EXCEPT !.pc = "resolved"]]
    /\ UNCHANGED <<sesAbortRest, cleanupTimeouts, forceKill, procRunning>>
    /\ UNCHANGED <<bufVars, mgrVars, secVars, rateVars, dmxVars, brkVars, hdlVars>>

\* await this.exec.resize({h: 0, w: 0})
AbortResize(c, ok) ==
    /\ abortCalls[c].pc = "resize"
    /\ abortCalls' = [abortCalls EXCEPT ![c] =
           IF ok
           THEN [@ EXCEPT !.pc = IF abortCalls[c].pid > 0 THEN "killCreate" ELSE "resolved",
                          !.sent = @ \cup {"resize"}]
           ELSE [@ EXCEPT !.pc = AbortOnFailure("resize", abortCalls[c].pid), !.failed = TRUE]]
    /\ UNCHANGED <<sesAbortRest, cleanupTimeouts, forceKill, procRunning>>
    /\ UNCHANGED <<bufVars, mgrVars, secVars, rateVars, dmxVars, brkVars, hdlVars>>

\* await this.container.exec({Cmd: ['kill', '-TERM', pid]})
AbortKillCreate(c, ok) ==
    /\ abortCalls[c].pc = "killCreate"
    /\ abortCalls' = [abortCalls EXCEPT ![c] =
           IF ok
           THEN [@ EXCEPT !.pc = "killStart"]
           ELSE [@ EXCEPT !.pc = AbortOnFailure("killCreate", abortCalls[c].pid), !.failed = TRUE]]
    /\ UNCHANGED <<sesAbortRest, cleanupTimeouts, forceKill, procRunning>>
    /\ UNCHANGED <<bufVars, mgrVars, secVars, rateVars, dmxVars, brkVars, hdlVars>>

\* await killExec.start({Detach: true}), then the force-kill timer is armed
\* and added to cleanupTimeouts
AbortKillStart(c, ok) ==
    /\ abortCalls[c].pc = "killStart"
    /\ IF ok
       THEN /\ abortCalls' = [abortCalls EXCEPT ![c] =
                   [@ EXCEPT !.pc = "resolved", !.sent = @ \cup {"TERM"}, !.armed = TRUE]]
            /\ forceKill' = [forceKill EXCEPT ![c] = "pending"]
            /\ cleanupTimeouts' = cleanupTimeouts \cup {c}
       ELSE /\ abortCalls' = [abortCalls EXCEPT ![c] =
                   [@ EXCEPT !.pc = AbortOnFailure("killStart", abortCalls[c].pid), !.failed = TRUE]]
            /\ UNCHANGED <<forceKill, cleanupTimeouts>>
    /\ UNCHANGED <<sesAbortRest, procRunning>>
    /\ UNCHANGED <<bufVars, mgrVars, secVars, rateVars, dmxVars, brkVars, hdlVars>>

\* the force-kill timer fires after 2000 ms: await this.exec.inspect()
ForceKillFires(c) ==
    /\ forceKill[c] = "pending"
    /\ forceKill' = [forceKill EXCEPT ![c] = "inspect"]
    /\ UNCHANGED <<sesAbortRest, cleanupTimeouts, abortCalls, procRunning>>
    /\ UNCHANGED <<bufVars, mgrVars, secVars, rateVars, dmxVars, brkVars, hdlVars>>

\* a step of the force-kill callback: inspect, create the kill -KILL exec,
\* start it; the finally block deletes the handle from cleanupTimeouts
ForceKillStep(c, ok) ==
    /\ forceKill[c] \in {"inspect", "killCreate", "killStart"}
    /\ LET next == IF ~ok THEN ForceKillOnFailure
                   ELSE IF forceKill[c] = "inspect"
                        THEN IF procRunning THEN "killCreate" ELSE "done"
                        ELSE IF forceKill[c] = "killCreate" THEN "killStart" ELSE "done"
           killed == ok /\ forceKill[c] = "killStart"
       IN  /\ forceKill' = [forceKill EXCEPT ![c] = next]
           /\ cleanupTimeouts' = IF next \in {"killCreate", "killStart"}
                                 THEN cleanupTimeouts ELSE cleanupTimeouts \ {c}
           /\ abortCalls' = [abortCalls EXCEPT ![c].sent =
                                 IF killed THEN @ \cup {"KILL"} ELSE @]
           /\ procRunning' = IF killed THEN FALSE ELSE procRunning
    /\ UNCHANGED sesAbortRest
    /\ UNCHANGED <<bufVars, mgrVars, secVars, rateVars, dmxVars, brkVars, hdlVars>>

----------------------------------------------------------------------------
(* SecurityManager and ShellCommandParser.  A string is the sequence of its *)
(* UTF-16 code units; a command is a sequence of strings.                  *)

\* String.prototype.toLowerCase on one character (Latin, Greek, Cyrillic)
ToLowerCase(c) ==
    IF c \in 65..90 THEN c + 32
    ELSE IF c \in 913..937 /\ c # 930 THEN c + 32
    ELSE IF c \in 1040..1071 THEN c + 32
    ELSE IF c \in 1024..1039 THEN c + 80
    ELSE IF c = 1216 THEN 1231
    ELSE c

\* String.prototype.includes
Includes(text, sub) ==
    \E i \in 1..(Len(text) - Len(sub) + 1) : SubSeq(text, i, i + Len(sub) - 1) = sub

\* Array.prototype.join(' ')
RECURSIVE Join(_)
Join(cmd) ==
    IF cmd = <<>> THEN <<>>
    ELSE IF Len(cmd) = 1 THEN cmd[1]
    ELSE cmd[1] \o <<32>> \o Join(Tail(cmd))

\* the characters \s matches
WhiteSpace == {9, 10, 11, 12, 13, 32, 160, 5760, 8232, 8233, 8239, 8287, 12288, 65279}
                  \cup 8192..8202

\* the characters \w matches; \b is a change of \w-ness
WordChars == (48..57) \cup (65..90) \cup (97..122) \cup {95}

\* a regular expression is a list of alternatives, each a list of atoms: a
\* character class with a quantifier ("1", "?", "*", "+"), a word boundary
\* ("b") or the start of the text ("^")
Cls(neg, chars, space, q) == [neg |-> neg, chars |-> chars, space |-> space, q |-> q]

Lit(c) == Cls(FALSE, {c}, FALSE, "1")

Space(q) == Cls(FALSE, {}, TRUE, q)

WordB == Cls(FALSE, {}, FALSE, "b")

\* the assertion ^ of a regular expression without the m flag
LineStart == Cls(FALSE, {}, FALSE, "^")

\* the canonical form the i flag compares: upper case, for the ASCII letters
\* the patterns are written in
Canonicalize(c) == IF c \in 97..122 THEN c - 32 ELSE c

AtomAccepts(a, c, ci) ==
    LET member == \/ \E x \in a.chars :
                        IF ci THEN Canonicalize(x) = Canonicalize(c) ELSE x = c
                  \/ a.space /\ c \in WhiteSpace
    IN  member # a.neg

IsWordAt(text, i) == i >= 1 /\ i <= Len(text) /\ text[i] \in WordChars

\* backtracking match of atoms k.. at position i: the position after the
\* match, 0 when there is none; quantifiers are greedy
RECURSIVE MatchEnd(_, _, _, _, _)
MatchEnd(atoms, k, text, i, ci) ==
    IF k > Len(atoms) THEN i
    ELSE LET a == atoms[k]
             here == i <= Len(text) /\ AtomAccepts(a, text[i], ci)
             more == IF here THEN MatchEnd(atoms, k, text, i + 1, ci) ELSE 0
             skip == MatchEnd(atoms, k + 1, text, i, ci)
             step == IF here THEN MatchEnd(atoms, k + 1, text, i + 1, ci) ELSE 0
             Or(first, second) == TheOne({IF m # 0 THEN m ELSE second : m \in {first}})
         IN  CASE a.q = "b" -> IF IsWordAt(text, i - 1) # IsWordAt(text, i) THEN skip ELSE 0
               [] a.q = "^" -> IF i = 1 THEN skip ELSE 0
               [] a.q = "1" -> step
               [] a.q = "?" -> Or(step, skip)
               [] a.q = "*" -> Or(more, skip)
               [] a.q = "+" -> Or(more, step)

\* the first alternative that matches at position i
RECURSIVE AltsMatchEnd(_, _, _, _)
AltsMatchEnd(alts, text, i, ci) ==
    IF alts = <<>> THEN 0
    ELSE TheOne({IF m # 0 THEN m ELSE AltsMatchEnd(Tail(alts), text, i, ci) :
                    m \in {MatchEnd(Head(alts), 1, text, i, ci)}})

\* RegExp.prototype.test
RegexTest(re, text) ==
    \E i \in 1..(Len(text) + 1) : AltsMatchEnd(re.alts, text, i, re.ci) # 0

\* checkShellInjection: injectionPatterns
injectionPatterns ==
    << \* /;\s*rm\s+-rf/i
       [ci |-> TRUE, alts |-> <<<<Lit(59), Space("*"), Lit(114), Lit(109), Space("+"), Lit(45), Lit(114), Lit(102)>>>>],
       \* /&&\s*rm\s+-rf/i
       [ci |-> TRUE, alts |-> <<<<Lit(38), Lit(38), Space("*"), Lit(114), Lit(109), Space("+"), Lit(45), Lit(114), Lit(102)>>>>],
       \* /\|\s*rm\s+-rf/i
       [ci |-> TRUE, alts |-> <<<<Lit(124), Space("*"), Lit(114), Lit(109), Space("+"), Lit(45), Lit(114), Lit(102)>>>>],
       \* /`[^`]*rm\s+-rf/i
       [ci |-> TRUE, alts |-> <<<<Lit(96), Cls(TRUE, {96}, FALSE, "*"), Lit(114), Lit(109), Space("+"), Lit(45), Lit(114), Lit(102)>>>>],
       \* /\$\([^)]*rm\s+-rf/i
       [ci |-> TRUE, alts |-> <<<<Lit(36), Lit(40), Cls(TRUE, {41}, FALSE, "*"), Lit(114), Lit(109), Space("+"), Lit(45), Lit(114), Lit(102)>>>>],
       \* /;\s*dd\s+if=/i
       [ci |-> TRUE, alts |-> <<<<Lit(59), Space("*"), Lit(100), Lit(100), Space("+"), Lit(105), Lit(102), Lit(61)>>>>],
       \* /&&\s*dd\s+if=/i
       [ci |-> TRUE, alts |-> <<<<Lit(38), Lit(38), Space("*"), Lit(100), Lit(100), Space("+"), Lit(105), Lit(102), Lit(61)>>>>],
       \* /\|\s*dd\s+if=/i
       [ci |-> TRUE, alts |-> <<<<Lit(124), Space("*"), Lit(100), Lit(100), Space("+"), Lit(105), Lit(102), Lit(61)>>>>],
       \* /;\s*mkfs/i
       [ci |-> TRUE, alts |-> <<<<Lit(59), Space("*"), Lit(109), Lit(107), Lit(102), Lit(115)>>>>],
       \* /&&\s*mkfs/i
       [ci |-> TRUE, alts |-> <<<<Lit(38), Lit(38), Space("*"), Lit(109), Lit(107), Lit(102), Lit(115)>>>>],
       \* />\s*\/dev\/[^\/\s]+/
       [ci |-> FALSE, alts |-> <<<<Lit(62), Space("*"), Lit(47), Lit(100), Lit(101), Lit(118), Lit(47), Cls(TRUE, {47}, TRUE, "+")>>>>],
       \* /;\s*reboot/i
       [ci |-> TRUE, alts |-> <<<<Lit(59), Space("*"), Lit(114), Lit(101), Lit(98), Lit(111), Lit(111), Lit(116)>>>>],
       \* /;\s*shutdown/i
       [ci |-> TRUE, alts |-> <<<<Lit(59), Space("*"), Lit(115), Lit(104), Lit(117), Lit(116), Lit(100), Lit(111), Lit(119), Lit(110)>>>>],
       \* /;\s*halt/i
       [ci |-> TRUE, alts |-> <<<<Lit(59), Space("*"), Lit(104), Lit(97), Lit(108), Lit(116)>>>>],
       \* /;\s*poweroff/i
       [ci |-> TRUE, alts |-> <<<<Lit(59), Space("*"), Lit(112), Lit(111), Lit(119), Lit(101), Lit(114), Lit(111), Lit(102), Lit(102)>>>>] >>

\* homoglyphMappings: key, then the characters whose presence in the text is reported
homoglyphMappings ==
       97 :> {1072, 593, 594, 945, 1075}   \* 'a'
    @@ 98 :> {388, 389, 946, 1074, 5071, 5551}   \* 'b'
    @@ 99 :> {1089, 1010, 392, 8635}   \* 'c'
    @@ 100 :> {1281, 598, 599, 396}   \* 'd'
    @@ 101 :> {1077, 1108, 1213, 949}   \* 'e'
    @@ 103 :> {609, 485, 291}   \* 'g'
    @@ 104 :> {1211, 1218, 1392}   \* 'h'
    @@ 105 :> {1110, 1231, 617, 953}   \* 'i'
    @@ 106 :> {1112, 1011, 309}   \* 'j'
    @@ 107 :> {954, 1082, 1179, 1181}   \* 'k'
    @@ 108 :> {73, 108, 49, 448, 1216, 921}   \* 'l'
    @@ 109 :> {1084, 956, 625}   \* 'm'
    @@ 110 :> {1087, 1400, 1404}   \* 'n'
    @@ 111 :> {1086, 959, 963, 1413, 1505}   \* 'o'
    @@ 112 :> {1088, 961, 1056, 9076}   \* 'p'
    @@ 114 :> {1075, 1169, 640}   \* 'r'
    @@ 115 :> {1109, 1505}   \* 's'
    @@ 116 :> {964, 1090}   \* 't'
    @@ 117 :> {965, 1405, 1094}   \* 'u'
    @@ 118 :> {957, 1140, 1496}   \* 'v'
    @@ 119 :> {969, 1096, 1308}   \* 'w'
    @@ 120 :> {1093, 967, 1203}   \* 'x'
    @@ 121 :> {1091, 1199, 1201}   \* 'y'
    @@ 122 :> {656, 657}   \* 'z'
    @@ 65 :> {913, 1040, 5034}   \* 'A'
    @@ 66 :> {914, 1042, 5108}   \* 'B'
    @@ 67 :> {1057, 1017, 8557}   \* 'C'
    @@ 69 :> {917, 1045, 5036}   \* 'E'
    @@ 72 :> {919, 1053, 5051}   \* 'H'
    @@ 73 :> {1030, 1216, 921}   \* 'I'
    @@ 75 :> {922, 1050, 5094}   \* 'K'
    @@ 77 :> {924, 1052, 5047}   \* 'M'
    @@ 78 :> {925, 5056}   \* 'N'
    @@ 79 :> {927, 1054, 5057}   \* 'O'
    @@ 80 :> {929, 1056, 5090}   \* 'P'
    @@ 84 :> {932, 1058, 5081}   \* 'T'
    @@ 88 :> {935, 1061, 5043}   \* 'X'
    @@ 89 :> {933, 1198}   \* 'Y'
    @@ 48 :> {959, 1086, 1413, 1776}   \* '0'
    @@ 49 :> {73, 108, 49, 448}   \* '1'
    @@ 51 :> {1047, 1248}   \* '3'
    @@ 52 :> {5070}   \* '4'
    @@ 54 :> {5102}   \* '6'
    @@ 56 :> {546, 547}   \* '8'

\* ShellCommandParser.parse: commandSubstitutionPatterns
commandSubstitutionPatterns ==
    << \* /\$\([^)]+\)/
       [ci |-> FALSE, alts |-> <<<<Lit(36), Lit(40), Cls(TRUE, {41}, FALSE, "+"), Lit(41)>>>>],
       \* /`[^`]+`/
       [ci |-> FALSE, alts |-> <<<<Lit(96), Cls(TRUE, {96}, FALSE, "+"), Lit(96)>>>>],
       \* /\$\{[^}]+\}/
       [ci |-> FALSE, alts |-> <<<<Lit(36), Lit(123), Cls(TRUE, {125}, FALSE, "+"), Lit(125)>>>>] >>

\* ShellCommandParser.containsDangerousPatterns: dangerousPatterns
dangerousPatterns ==
    << \* /\brm\s+-rf?\s+\//
       [ci |-> FALSE, alts |-> <<<<WordB, Lit(114), Lit(109), Space("+"), Lit(45), Lit(114), Cls(FALSE, {102}, FALSE, "?"), Space("+"), Lit(47)>>>>],
       \* /\bdd\s+if=\/dev\/zero/
       [ci |-> FALSE, alts |-> <<<<WordB, Lit(100), Lit(100), Space("+"), Lit(105), Lit(102), Lit(61), Lit(47), Lit(100), Lit(101), Lit(118), Lit(47), Lit(122), Lit(101), Lit(114), Lit(111)>>>>],
       \* /\bmkfs/
       [ci |-> FALSE, alts |-> <<<<WordB, Lit(109), Lit(107), Lit(102), Lit(115)>>>>],
       \* /\b(shutdown|reboot|halt|poweroff)\b/
       [ci |-> FALSE, alts |-> <<<<WordB, Lit(115), Lit(104), Lit(117), Lit(116), Lit(100), Lit(111), Lit(119), Lit(110), WordB>>,
                 <<WordB, Lit(114), Lit(101), Lit(98), Lit(111), Lit(111), Lit(116), WordB>>,
                 <<WordB, Lit(104), Lit(97), Lit(108), Lit(116), WordB>>,
                 <<WordB, Lit(112), Lit(111), Lit(119), Lit(101), Lit(114), Lit(111), Lit(102), Lit(102), WordB>>>>],
       \* /\b(kill|killall)\s+-9\s+/
       [ci |-> FALSE, alts |-> <<<<WordB, Lit(107), Lit(105), Lit(108), Lit(108), Space("+"), Lit(45), Lit(57), Space("+")>>,
                 <<WordB, Lit(107), Lit(105), Lit(108), Lit(108), Lit(97), Lit(108), Lit(108), Space("+"), Lit(45), Lit(57), Space("+")>>>>],
       \* /\bnc\s+-l/
       [ci |-> FALSE, alts |-> <<<<WordB, Lit(110), Lit(99), Space("+"), Lit(45), Lit(108)>>>>],
       \* /\bcurl\s+.*\|\s*sh/
       [ci |-> FALSE, alts |-> <<<<WordB, Lit(99), Lit(117), Lit(114), Lit(108), Space("+"), Cls(TRUE, {10, 13, 8232, 8233}, FALSE, "*"), Lit(124), Space("*"), Lit(115), Lit(104)>>>>],
       \* /\bwget\s+.*\|\s*sh/
       [ci |-> FALSE, alts |-> <<<<WordB, Lit(119), Lit(103), Lit(101), Lit(116), Space("+"), Cls(TRUE, {10, 13, 8232, 8233}, FALSE, "*"), Lit(124), Space("*"), Lit(115), Lit(104)>>>>],
       \* /\bsudo\s+/
       [ci |-> FALSE, alts |-> <<<<WordB, Lit(115), Lit(117), Lit(100), Lit(111), Space("+")>>>>],
       \* /\bsu\s+/
       [ci |-> FALSE, alts |-> <<<<WordB, Lit(115), Lit(117), Space("+")>>>>],
       \* /\bchmod\s+\+s/
       [ci |-> FALSE, alts |-> <<<<WordB, Lit(99), Lit(104), Lit(109), Lit(111), Lit(100), Space("+"), Lit(43), Lit(115)>>>>],
       \* /:\(\)\{:|:\|:\&\}/
       [ci |-> FALSE, alts |-> <<<<Lit(58), Lit(40), Lit(41), Lit(123), Lit(58)>>,
                 <<Lit(58), Lit(124), Lit(58), Lit(38), Lit(125)>>>>],
       \* />\s*\/dev\/(sda|hda|nvme)/
       [ci |-> FALSE, alts |-> <<<<Lit(62), Space("*"), Lit(47), Lit(100), Lit(101), Lit(118), Lit(47), Lit(115), Lit(100), Lit(97)>>,
                 <<Lit(62), Space("*"), Lit(47), Lit(100), Lit(101), Lit(118), Lit(47), Lit(104), Lit(100), Lit(97)>>,
                 <<Lit(62), Space("*"), Lit(47), Lit(100), Lit(101), Lit(118), Lit(47), Lit(110), Lit(118), Lit(109), Lit(101)>>>>] >>

\* the characters of a string
CharsOf(text) == {text[i] : i \in 1..Len(text)}

\* scriptRanges of containsHomoglyphs
ScriptsOf(c) ==
    {name \in {"latin", "cyrillic", "greek", "arabic", "hebrew", "armenian", "cherokee"} :
        \/ name = "latin" /\ c \in (65..90) \cup (97..122)
        \/ name = "cyrillic" /\ c \in 1024..1279
        \/ name = "greek" /\ c \in 880..1023
        \/ name = "arabic" /\ c \in 1536..1791
        \/ name = "hebrew" /\ c \in 1424..1535
        \/ name = "armenian" /\ c \in 1328..1423
        \/ name = "cherokee" /\ c \in 5024..5119}

\* containsHomoglyphs: a character whose lower case is a key of the table and
\* one of that key's look-alikes anywhere in the text, or two scripts
containsHomoglyphs(text) ==
    \/ \E i \in 1..Len(text) :
          LET lowerChar == ToLowerCase(text[i])
          IN  /\ lowerChar \in DOMAIN homoglyphMappings
              /\ homoglyphMappings[lowerChar] \cap CharsOf(text) # {}
    \/ Cardinality(UNION {ScriptsOf(c) : c \in CharsOf(text)}) > 1

AllowedResult == [allowed |-> TRUE, reason |-> "none"]

DeniedResult(reason) == [allowed |-> FALSE, reason |-> reason]

\* checkShellInjection
checkShellInjection(cmd) ==
    LET cmdString == Join(cmd)
    IN  IF \E k \in 1..Len(injectionPatterns) : RegexTest(injectionPatterns[k], cmdString)
        THEN DeniedResult("Potential shell injection detected")
        ELSE IF containsHomoglyphs(cmdString)
             THEN DeniedResult("Unicode homoglyphs detected in command")
             ELSE AllowedResult

\* the characters tokenize treats as operators:  ; | & < > ( )
OperatorChars == {59, 124, 38, 60, 62, 40, 41}

TokenizeStart == [tokens |-> <<>>, current |-> <<>>, inSingleQuote |-> FALSE,
                  inDoubleQuote |-> FALSE, escaped |-> FALSE]

\* if (current) { tokens.push(current); current = '' }
FlushToken(st) ==
    IF st.current # <<>>
    THEN [st EXCEPT !.tokens = Append(@, st.current), !.current = <<>>]
    ELSE st

\* a tokenizer that takes blanks and operators for live inside quotes too
Outside_Always(st) == TRUE

\* if (!inSingleQuote && !inDoubleQuote): blanks and operators count
Outside(st) == ~st.inSingleQuote /\ ~st.inDoubleQuote

\* a character that reaches the loop's last statement, current += char: no
\* backslash, quote, blank or operator that counts in the state st
Ordinary(char, st) ==
    /\ ~(char = 92 /\ ~st.inSingleQuote)
    /\ ~(char = 39 /\ ~st.inDoubleQuote)
    /\ ~(char = 34 /\ ~st.inSingleQuote)
    /\ ~(Outside(st) /\ char \in {32, 9, 10} \cup OperatorChars)

\* the first position from i on whose character is not ordinary
RunEnd(input, i, st) ==
    LET stops == {j \in i..Len(input) : ~Ordinary(input[j], st)}
    IN  IF stops = {} THEN Len(input) + 1
        ELSE CHOOSE j \in stops : \A k \in stops : j <= k

\* ShellCommandParser.tokenize, from character i on; a run of ordinary
\* characters, which only grow current, is taken in one step
RECURSIVE TokenizeFrom(_, _, _)
TokenizeFrom(input, i, st) ==
    IF i > Len(input) THEN FlushToken(st).tokens
    ELSE
      LET char == input[i]
          nextChar == IF i + 1 <= Len(input) THEN input[i + 1] ELSE 0
          outside == Outside(st)
          keep == [st EXCEPT !.current = Append(@, char)]
          Go(j, next) == TheOne({TokenizeFrom(input, j, s) : s \in {next}})
      IN  IF st.escaped
            THEN Go(i + 1, [keep EXCEPT !.escaped = FALSE])
          ELSE IF Ordinary(char, st)
            THEN TheOne({Go(e, [st EXCEPT !.current = @ \o SubSeq(input, i, e - 1)]) :
                            e \in {RunEnd(input, i, st)}})
          ELSE IF char = 92 /\ ~st.inSingleQuote
            THEN IF nextChar = 10
                 THEN Go(i + 2, st)
                 ELSE Go(i + 1, [keep EXCEPT !.escaped = TRUE])
          ELSE IF char = 39 /\ ~st.inDoubleQuote
            THEN Go(i + 1, [keep EXCEPT !.inSingleQuote = ~@])
          ELSE IF char = 34 /\ ~st.inSingleQuote
            THEN Go(i + 1, [keep EXCEPT !.inDoubleQuote = ~@])
          ELSE IF outside /\ char \in {32, 9, 10}
            THEN Go(i + 1, FlushToken(st))
          ELSE IF outside /\ char \in OperatorChars
            THEN IF char \in {124, 38, 62, 60} /\ nextChar = char
                 THEN Go(i + 2, [FlushToken(st) EXCEPT !.tokens = Append(@, <<char, char>>)])
                 ELSE Go(i + 1, [FlushToken(st) EXCEPT !.tokens = Append(@, <<char>>)])
          ELSE Go(i + 1, keep)

tokenize(input) == TheOne({TokenizeFrom(text, 1, TokenizeStart) : text \in {input}})

\* the separators of separateCommands:  ;  |  ||  &&  &
Separators == {<<59>>, <<124>>, <<124, 124>>, <<38, 38>>, <<38>>}

\* ShellCommandParser.separateCommands
RECURSIVE SeparateFrom(_, _, _)
SeparateFrom(tokens, commands, current) ==
    LET pushed == IF current # <<>> THEN Append(commands, current) ELSE commands
        Go(cs, cur) == TheOne({SeparateFrom(t, c, d) : t \in {Tail(tokens)}, c \in {cs}, d \in {cur}})
    IN  IF tokens = <<>> THEN pushed
        ELSE IF Head(tokens) \in Separators
             THEN Go(pushed, <<>>)
             ELSE Go(commands, Append(current, Head(tokens)))

separateCommands(tokens) == TheOne({SeparateFrom(t, <<>>, <<>>) : t \in {tokens}})

\* String.prototype.trim
Trim(text) ==
    LET inner == {i \in 1..Len(text) : text[i] \notin WhiteSpace}
    IN  IF inner = {} THEN <<>>
        ELSE SubSeq(text, CHOOSE i \in inner : \A j \in inner : i <= j,
                          CHOOSE i \in inner : \A j \in inner : i >= j)

\* every match of a global regular expression from position i on, as
\* <<first, beyond>> pairs; the search resumes where the last match ended
RECURSIVE FindAll(_, _, _)
FindAll(re, text, i) ==
    TheOne({IF starts = {} THEN <<>>
            ELSE TheOne({<<(<<j, m>>)>> \o FindAll(re, text, IF m > j THEN m ELSE j + 1) :
                            j \in {CHOOSE a \in starts : \A b \in starts : a <= b},
                            m \in {AltsMatchEnd(re.alts, text,
                                                CHOOSE a \in starts : \A b \in starts : a <= b,
                                                re.ci)}}) :
               starts \in {{a \in i..Len(text) : AltsMatchEnd(re.alts, text, a, re.ci) # 0}}})

\* String.prototype.match with a global regular expression
MatchAll(re, text) ==
    TheOne({[k \in 1..Len(found) |-> SubSeq(text, found[k][1], found[k][2] - 1)] :
               found \in {FindAll(re, text, 1)}})

\* the capture group of a substitution: the match without its `open`
\* leading characters and its closing character
Captures(re, text, open) ==
    TheOne({[k \in 1..Len(found) |-> SubSeq(text, found[k][1] + open, found[k][2] - 2)] :
               found \in {FindAll(re, text, 1)}})

\* content.includes(' ') || content.includes(';') || content.includes('|')
CommandLike(content) == CharsOf(content) \cap {32, 59, 124} # {}

\* ShellCommandParser.extractSubstitutions: $(..), `..`, and ${..} when its
\* content looks like a command
extractSubstitutions(input) ==
    Captures(commandSubstitutionPatterns[1], input, 2)
        \o Captures(commandSubstitutionPatterns[2], input, 1)
        \o SelectSeq(Captures(commandSubstitutionPatterns[3], input, 2), CommandLike)

\* cmdTokens.join(' ').trim(), kept when not empty
JoinedCommands(separated) ==
    SelectSeq([k \in 1..Len(separated) |-> Trim(Join(separated[k]))],
              LAMBDA cmd : cmd # <<>>)

RECURSIVE Flatten(_)
Flatten(lists) == IF lists = <<>> THEN <<>> ELSE Head(lists) \o Flatten(Tail(lists))

\* ShellCommandParser.extractAllCommands: the commands of every
\* substitution, then the commands of the input itself
RECURSIVE extractAllCommands(_)
extractAllCommands(input) ==
    TheOne({Flatten([k \in 1..Len(subs) |-> extractAllCommands(subs[k])])
                \o JoinedCommands(separated) :
               subs \in {extractSubstitutions(input)},
               separated \in {separateCommands(tokenize(input))}})

\* ShellCommandParser.parse
parse(command) ==
    TheOne({[commands |-> extractAllCommands(text),
             suspicious |-> MatchAll(commandSubstitutionPatterns[1], text)
                                \o MatchAll(commandSubstitutionPatterns[2], text)
                                \o MatchAll(commandSubstitutionPatterns[3], text)] :
               text \in {command}})

\* ShellCommandParser.containsDangerousPatterns: the patterns that match
containsDangerousPatterns(command) ==
    LET hits == {k \in 1..Len(dangerousPatterns) : RegexTest(dangerousPatterns[k], command)}
    IN  [dangerous |-> hits # {}, patterns |-> hits]

\* the config: security.deniedFlags, security.pathPolicy.deniedPaths (defaults)
deniedFlags ==
    \* '--privileged', '--pid=host', '--net=host'
    << <<45, 45, 112, 114, 105, 118, 105, 108, 101, 103, 101, 100>>,
       <<45, 45, 112, 105, 100, 61, 104, 111, 115, 116>>,
       <<45, 45, 110, 101, 116, 61, 104, 111, 115, 116>> >>

deniedPaths ==
    \* '/proc', '/sys', '/dev'
    << <<47, 112, 114, 111, 99>>,
       <<47, 115, 121, 115>>,
       <<47, 100, 101, 118>> >>

\* checkCommandPolicy: 'sh', 'bash', 'zsh', 'ash', 'dash', 'ksh', 'csh', 'tcsh'
dangerousShells ==
    { <<115, 104>>,
      <<98, 97, 115, 104>>,
      <<122, 115, 104>>,
      <<97, 115, 104>>,
      <<100, 97, 115, 104>>,
      <<107, 115, 104>>,
      <<99, 115, 104>>,
      <<116, 99, 115, 104>> }

\* checkPaths: 'ls', 'cat', 'head', 'tail', 'grep', 'find'
ReadOnlyBinaries ==
    { <<108, 115>>,
      <<99, 97, 116>>,
      <<104, 101, 97, 100>>,
      <<116, 97, 105, 108>>,
      <<103, 114, 101, 112>>,
      <<102, 105, 110, 100>> }

\* '-c'
DashC == <<45, 99>>

\* the commands that are checked
CommandCatalogue ==
    << \* 'ls' '-la'
       <<<<108, 115>>, <<45, 108, 97>>>>,
       \* 'sh' '-c' 'echo test; rm -rf /'
       <<<<115, 104>>, <<45, 99>>, <<101, 99, 104, 111, 32, 116, 101, 115, 116, 59, 32, 114, 109, 32, 45, 114, 102, 32, 47>>>>,
       \* 'sh' '-c' 'echo \u0442est'
       <<<<115, 104>>, <<45, 99>>, <<101, 99, 104, 111, 32, 1090, 101, 115, 116>>>>,
       \* 'whoami'
       <<<<119, 104, 111, 97, 109, 105>>>>,
       \* 'sh' '-c' 'echo ok'
       <<<<115, 104>>, <<45, 99>>, <<101, 99, 104, 111, 32, 111, 107>>>>,
       \* 'rm' '-rf' '/'
       <<<<114, 109>>, <<45, 114, 102>>, <<47>>>>,
       \* 'sh' '-c' 'echo $(whoami)'
       <<<<115, 104>>, <<45, 99>>, <<101, 99, 104, 111, 32, 36, 40, 119, 104, 111, 97, 109, 105, 41>>>>,
       \* 'touch' '/sys/x'
       <<<<116, 111, 117, 99, 104>>, <<47, 115, 121, 115, 47, 120>>>>,
       \* 'docker' 'run' '--privileged'
       <<<<100, 111, 99, 107, 101, 114>>, <<114, 117, 110>>, <<45, 45, 112, 114, 105, 118, 105, 108, 101, 103, 101, 100>>>>,
       \* 'ls' '-la' '/app'
       <<<<108, 115>>, <<45, 108, 97>>, <<47, 97, 112, 112>>>> >>

\* the values of commandPolicy.patterns: [], ['rm'], ['echo', 'ls'],
\* ['rm -rf'], ['^ls']
PatternChoices ==
    << <<>>,
       <<<<114, 109>>>>,
       <<<<101, 99, 104, 111>>, <<108, 115>>>>,
       <<<<114, 109, 32, 45, 114, 102>>>>,
       <<<<94, 108, 115>>>> >>

PolicyModes == {"none", "allowlist", "denylist"}

\* params.user; "" is an absent user
Users == {"", "root", "0", "nobody"}

\* security.defaultUser; "" is none configured
DefaultUsers == {"", "nobody"}

\* new RegExp(pattern, 'i') of a pattern whose only metacharacter is ^
CompilePattern(pattern) ==
    [ci |-> TRUE,
     alts |-> <<[i \in 1..Len(pattern) |->
                    IF pattern[i] = 94 THEN LineStart ELSE Lit(pattern[i])]>>]

\* checkUser
checkUser(config, user) ==
    IF user = "" /\ config.defaultUser # ""
    THEN AllowedResult
    ELSE IF (user = "root" \/ user = "0" \/ user = "") /\ ~config.allowRoot
         THEN DeniedResult("Root user execution not allowed")
         ELSE AllowedResult

\* checkPatternMatch
checkPatternMatch(cmd, patterns, mode) ==
    LET fullCommand == Join(cmd)
        matches == \E k \in 1..Len(patterns) : RegexTest(CompilePattern(patterns[k]), fullCommand)
    IN  IF mode = "allowlist"
        THEN IF matches THEN AllowedResult ELSE DeniedResult("Command not in allowlist")
        ELSE IF matches THEN DeniedResult("Command matches denylist") ELSE AllowedResult

\* cmd.indexOf('-c'), 0 when absent
IndexOfDashC(cmd) ==
    IF \E i \in 1..Len(cmd) : cmd[i] = DashC
    THEN CHOOSE i \in 1..Len(cmd) : cmd[i] = DashC /\ \A j \in 1..(i - 1) : cmd[j] # DashC
    ELSE 0

\* a shell invoked with -c and a command string after it
IsShellCommand(cmd) ==
    /\ cmd # <<>>
    /\ cmd[1] \in dangerousShells
    /\ IndexOfDashC(cmd) # 0
    /\ IndexOfDashC(cmd) + 1 <= Len(cmd)

\* the loop over the commands parse extracted: the first one refused
FirstBlocked(commands, patterns, mode) ==
    IF \E k \in 1..Len(commands) : ~checkPatternMatch(<<commands[k]>>, patterns, mode).allowed
    THEN DeniedResult("Shell command blocked")
    ELSE AllowedResult

\* whether checkCommandPolicy returns before any scan
PolicySkipped(mode, patterns) == mode = "none" \/ Len(patterns) = 0

\* checkCommandPolicy, the block for a shell invoked with -c
checkShellCommand(shellCommand, patterns, mode) ==
    TheOne({IF parsed.suspicious # <<>>
            THEN DeniedResult("Command substitution detected")
            ELSE IF containsDangerousPatterns(shellCommand).dangerous
                 THEN DeniedResult("Dangerous command pattern detected")
                 ELSE FirstBlocked(parsed.commands, patterns, mode) :
               parsed \in {parse(shellCommand)}})

\* checkCommandPolicy
checkCommandPolicy(config, cmd) ==
    LET mode == config.mode
        patterns == config.patterns
    IN  IF PolicySkipped(mode, patterns) THEN AllowedResult
        ELSE TheOne({
               IF ~shellInjectionCheck.allowed THEN shellInjectionCheck
               ELSE IF IsShellCommand(cmd) /\ ~shellCheck.allowed THEN shellCheck
               ELSE checkPatternMatch(cmd, patterns, mode) :
                  shellInjectionCheck \in {checkShellInjection(cmd)},
                  shellCheck \in {IF IsShellCommand(cmd)
                                  THEN checkShellCommand(cmd[IndexOfDashC(cmd) + 1], patterns, mode)
                                  ELSE AllowedResult}})

\* checkDangerousFlags
checkDangerousFlags(cmd) ==
    IF \E k \in 1..Len(deniedFlags) : Includes(Join(cmd), deniedFlags[k])
    THEN DeniedResult("Dangerous flag detected")
    ELSE AllowedResult

\* checkPaths
checkPaths(cmd) ==
    LET isReadOnly == cmd # <<>> /\ cmd[1] # <<>> /\ cmd[1] \in ReadOnlyBinaries
    IN  IF (\E k \in 1..Len(deniedPaths) : Includes(Join(cmd), deniedPaths[k])) /\ ~isReadOnly
        THEN DeniedResult("Access to path is restricted")
        ELSE AllowedResult

\* a checkCommand that runs every check and returns the last denial
FirstDenial_Last(checks) ==
    IF \E k \in 1..Len(checks) : ~checks[k].allowed
    THEN checks[CHOOSE k \in 1..Len(checks) :
                    ~checks[k].allowed /\ \A j \in (k + 1)..Len(checks) : checks[j].allowed]
    ELSE AllowedResult

\* the first check of the list that denies, as checkCommand returns it
FirstDenial(checks) ==
    IF \E k \in 1..Len(checks) : ~checks[k].allowed
    THEN checks[CHOOSE k \in 1..Len(checks) :
                    ~checks[k].allowed /\ \A j \in 1..(k - 1) : checks[j].allowed]
    ELSE AllowedResult

\* checkCommand; rateOk is what checkRateLimit answered.  The checks are pure,
\* so computing all of them and returning the first denial is what the
\* early returns do.
checkCommand(config, cmd, user, rateOk) ==
    IF ~config.enabled THEN AllowedResult
    ELSE TheOne({FirstDenial(checks) :
                   checks \in {<< IF rateOk THEN AllowedResult
                                             ELSE DeniedResult("Rate limit exceeded"),
                                  checkUser(config, user),
                                  checkCommandPolicy(config, cmd),
                                  checkDangerousFlags(cmd),
                                  checkPaths(cmd) >>}})

\* DockerManager.exec: User: params.user; an absent user is the container's own
ExecUser(user) == user

NoCheck == [done |-> FALSE, cmd |-> 1, user |-> "", rateOk |-> TRUE,
            result |-> AllowedResult, execUser |-> ""]

\* no call of parse yet
NoParse == [done |-> FALSE, commands |-> <<>>, suspicious |-> <<>>]

PrsIdle ==
    /\ parseInput = <<>>
    /\ parseResult = NoParse

SecIdle ==
    /\ secConfig = [enabled |-> TRUE, allowRoot |-> FALSE, defaultUser |-> "",
                    mode |-> "none", patterns |-> <<>>]
    /\ secCheck = NoCheck
    /\ PrsIdle

\* the config as loaded: any mode, pattern list, allowRoot, defaultUser
SecInit ==
    /\ \E en \in BOOLEAN, ar \in BOOLEAN, du \in DefaultUsers, m \in PolicyModes,
          ps \in 1..Len(PatternChoices) :
          secConfig = [enabled |-> en, allowRoot |-> ar, defaultUser |-> du,
                       mode |-> m, patterns |-> PatternChoices[ps]]
    /\ secCheck = NoCheck
    /\ PrsIdle

\* one call of checkCommand; the checks keep no state between calls (the
\* rate limiter's answer is an input), so a behaviour holds one call
CheckCommand(k, user, rateOk) ==
    /\ ~secCheck.done
    /\ secCheck' = [done |-> TRUE, cmd |-> k, user |-> user, rateOk |-> rateOk,
                    result |-> checkCommand(secConfig, CommandCatalogue[k], user, rateOk),
                    execUser |-> ExecUser(user)]
    /\ UNCHANGED <<secConfig, parseInput, parseResult>>
    /\ UNCHANGED <<bufVars, mgrVars, sesVars, rateVars, dmxVars, brkVars, hdlVars>>

\* ---- ShellCommandParser.parse as a call of its own ----

\* the command strings of the parser's tests (part_004) without substitution:
\*   ls -la
\*   echo hello; ls -la; pwd
\*   cat file.txt | grep pattern | wc -l
\*   test -f file && echo exists || echo not found
\*   echo "hello; world" | grep "pattern|test"
\*   echo 'hello && world'
\*   echo hello\; world
TestStrings ==
    { <<108, 115, 32, 45, 108, 97>>,
      <<101, 99, 104, 111, 32, 104, 101, 108, 108, 111, 59, 32, 108, 115, 32, 45, 108, 97, 59, 32, 112, 119, 100>>,
      <<99, 97, 116, 32, 102, 105, 108, 101, 46, 116, 120, 116, 32, 124, 32, 103, 114, 101, 112, 32, 112, 97, 116, 116, 101, 114, 110, 32, 124, 32, 119, 99, 32, 45, 108>>,
      <<116, 101, 115, 116, 32, 45, 102, 32, 102, 105, 108, 101, 32, 38, 38, 32, 101, 99, 104, 111, 32, 101, 120, 105, 115, 116, 115, 32, 124, 124, 32, 101, 99, 104, 111, 32, 110, 111, 116, 32, 102, 111, 117, 110, 100>>,
      <<101, 99, 104, 111, 32, 34, 104, 101, 108, 108, 111, 59, 32, 119, 111, 114, 108, 100, 34, 32, 124, 32, 103, 114, 101, 112, 32, 34, 112, 97, 116, 116, 101, 114, 110, 124, 116, 101, 115, 116, 34>>,
      <<101, 99, 104, 111, 32, 39, 104, 101, 108, 108, 111, 32, 38, 38, 32, 119, 111, 114, 108, 100, 39>>,
      <<101, 99, 104, 111, 32, 104, 101, 108, 108, 111, 92, 59, 32, 119, 111, 114, 108, 100>> }

\* command strings with substitutions:
\*   echo $(whoami)
\*   echo `date`
\*   echo $(echo $(whoami))
\*   echo ${a b}
\*   echo ${HOME}
\*   echo $(ls -la) `id`
SubstitutionStrings ==
    { <<101, 99, 104, 111, 32, 36, 40, 119, 104, 111, 97, 109, 105, 41>>,
      <<101, 99, 104, 111, 32, 96, 100, 97, 116, 101, 96>>,
      <<101, 99, 104, 111, 32, 36, 40, 101, 99, 104, 111, 32, 36, 40, 119, 104, 111, 97, 109, 105, 41, 41>>,
      <<101, 99, 104, 111, 32, 36, 123, 97, 32, 98, 125>>,
      <<101, 99, 104, 111, 32, 36, 123, 72, 79, 77, 69, 125>>,
      <<101, 99, 104, 111, 32, 36, 40, 108, 115, 32, 45, 108, 97, 41, 32, 96, 105, 100, 96>> }

\* the separators  ;  |  &&  ||  &
SeparatorTexts == {<<59>>, <<124>>, <<38, 38>>, <<124, 124>>, <<38>>}

\* a separator as it stands between two commands: with blanks around it,
\* without, inside '...', inside "...", after a backslash
SeparatorContexts(sep) ==
    { <<32>> \o sep \o <<32>>,
      sep,
      <<32, 39, 112, 32>> \o sep \o <<32, 113, 39, 32>>,
      <<32, 34, 112>> \o sep \o <<113, 34, 32>>,
      <<92>> \o sep }

\* 'a' or 'echo x', a separator in one of its contexts, 'b' or 'wc -l'
SeparatorStrings ==
    {left \o mid \o right :
        left \in {<<97>>, <<101, 99, 104, 111, 32, 120>>},
        mid \in UNION {SeparatorContexts(sep) : sep \in SeparatorTexts},
        right \in {<<98>>, <<119, 99, 32, 45, 108>>}}

ShellStrings == TestStrings \cup SubstitutionStrings \cup SeparatorStrings

PrsInit ==
    /\ parseInput \in ShellStrings
    /\ parseResult = NoParse

\* one call of ShellCommandParser.parse
Parse ==
    /\ ~parseResult.done
    /\ parseResult' = TheOne({[done |-> TRUE, commands |-> r.commands,
                          suspicious |-> r.suspicious] :
                            r \in {parse(parseInput)}})
    /\ UNCHANGED <<secConfig, secCheck, parseInput>>
    /\ UNCHANGED <<bufVars, mgrVars, sesVars, rateVars, dmxVars, brkVars, hdlVars>>

----------------------------------------------------------------------------
(* The rate limiter: DistributedRateLimiter over the InMemoryRateLimiter    *)
(* backend, which SecurityManager.create installs when no Redis URL is set. *)
(* redisKeys follows what a RedisRateLimiter backend would hold for the     *)
(* same checks; no decision of the model is taken from it.                  *)
(* Time is counted in ticks; a window is WindowTicks long.                  *)

\* bounds of the rate-limiter model
NumCallers == 3
MaxClock == 2
WindowTicks == 1
ExecLimitBound == 2
LogsLimit == 1
MaxLogsChecks == 2

Callers == 1..NumCallers

\* the operations that are metered; the key is rate_limit:<operation>:default
Operations == {"exec", "logs"}

\* the requests the concurrent calls are made with, as <<command, user>>:
\* 'whoami', 'rm -rf /' as nobody and as root, 'touch /sys/x',
\* 'docker run --privileged'
RateRequests == {<<4, "nobody">>, <<6, "nobody">>, <<6, "root">>,
                 <<8, "nobody">>, <<9, "nobody">>}

\* a key the counts map does not hold
NoEntry == [present |-> FALSE, count |-> 0, resetAt |-> 0]

\* !existing || existing.resetAt < now
Expired(existing, at) == ~existing.present \/ existing.resetAt < at

\* a backend that drops the increment of a key it already holds
increment_Lost(cnts, key, at, windowMs) ==
    IF Expired(cnts[key], at)
    THEN [cnts EXCEPT ![key] = [present |-> TRUE, count |-> 1, resetAt |-> at + windowMs]]
    ELSE cnts

\* InMemoryRateLimiter.increment: the map after the call; the count it
\* returns is the key's count in that map
increment(cnts, key, at, windowMs) ==
    IF Expired(cnts[key], at)
    THEN [cnts EXCEPT ![key] = [present |-> TRUE, count |-> 1, resetAt |-> at + windowMs]]
    ELSE [cnts EXCEPT ![key].count = @ + 1]

\* RedisRateLimiter.increment: INCR key (a key that is absent or has expired
\* starts at 1), EXPIRE key ttl, both in one MULTI; the ttl of windowMs is
\* set anew by every call
redisIncrement(keys, key, at, windowMs) ==
    [keys EXCEPT ![key] =
        [present |-> TRUE,
         count |-> IF Expired(keys[key], at) THEN 1 ELSE keys[key].count + 1,
         resetAt |-> at + windowMs]]

\* DistributedRateLimiter.checkLimit
checkLimit(cnts, operation, limit, at, windowMs) ==
    TheOne({[counts |-> next,
             allowed |-> next[operation].count <= limit,
             current |-> next[operation].count] :
                next \in {increment(cnts, operation, at, windowMs)}})

\* the limit of an operation
LimitOf(limits, operation) ==
    IF operation = "exec" THEN limits.execPerMinute ELSE limits.logsPerMinute

\* a rate check that counts a request only while the key is under its limit
checkRateLimit_CountAllowedOnly(limits, cnts, operation, at) ==
    IF ~limits.enabled
    THEN [counts |-> cnts, result |-> AllowedResult, metered |-> FALSE]
    ELSE IF ~Expired(cnts[operation], at)
              /\ cnts[operation].count >= LimitOf(limits, operation)
         THEN [counts |-> cnts, result |-> DeniedResult("Rate limit exceeded"),
               metered |-> TRUE]
         ELSE [counts |-> increment(cnts, operation, at, WindowTicks),
               result |-> AllowedResult, metered |-> TRUE]

\* SecurityManager.checkRateLimit: the limiter's map after the call and the
\* result; metered tells whether the limiter was asked
checkRateLimit(limits, cnts, operation, at) ==
    IF ~limits.enabled
    THEN [counts |-> cnts, result |-> AllowedResult, metered |-> FALSE]
    ELSE TheOne({[counts |-> r.counts,
                  result |-> IF r.allowed THEN AllowedResult
                                          ELSE DeniedResult("Rate limit exceeded"),
                  metered |-> TRUE] :
                     r \in {checkLimit(cnts, operation, LimitOf(limits, operation),
                                       at, WindowTicks)}})

\* the history of a key's windows after one more check at time `at`
RecordCheck(windows, at, passed) ==
    IF windows = <<>> \/ windows[Len(windows)].resetAt < at
    THEN Append(windows, [resetAt |-> at + WindowTicks, total |-> 1,
                          passed |-> IF passed THEN 1 ELSE 0])
    ELSE [windows EXCEPT ![Len(windows)] =
             [@ EXCEPT !.total = @ + 1,
                       !.passed = IF passed THEN @ + 1 ELSE @]]

\* the security configs of the rate-limiter runs: root not allowed, the
\* pattern 'rm' as a denylist or unused; security enabled or not
RateConfigs ==
    {[enabled |-> en, allowRoot |-> FALSE, defaultUser |-> "",
      mode |-> m, patterns |-> PatternChoices[2]] :
         en \in BOOLEAN, m \in {"none", "denylist"}}

\* checkCommand on the requests of the rate-limiter runs, computed once
checkCommandOf ==
    [cfg \in RateConfigs, rq \in RateRequests, rateOk \in BOOLEAN |->
        checkCommand(cfg, CommandCatalogue[rq[1]], rq[2], rateOk)]

IdleCall == [pc |-> "idle", cmd |-> 1, user |-> "", metered |-> FALSE,
            rateCheck |-> AllowedResult, result |-> AllowedResult]

RateIdle ==
    /\ rateLimits = [enabled |-> TRUE, execPerMinute |-> 1, logsPerMinute |-> LogsLimit]
    /\ counts = [o \in Operations |-> NoEntry]
    /\ clock = 0
    /\ calls = [c \in Callers |-> IdleCall]
    /\ logsAccess = [n |-> 0, result |-> AllowedResult]
    /\ rateWindows = [o \in Operations |-> <<>>]
    /\ redisKeys = [o \in Operations |-> NoEntry]

\* SecurityManager.create: an empty limiter under the loaded config
RateInit ==
    /\ \E en \in BOOLEAN, limit \in 1..ExecLimitBound :
          rateLimits = [enabled |-> en, execPerMinute |-> limit, logsPerMinute |-> LogsLimit]
    /\ counts = [o \in Operations |-> NoEntry]
    /\ clock = 0
    /\ calls = [c \in Callers |-> IdleCall]
    /\ logsAccess = [n |-> 0, result |-> AllowedResult]
    /\ rateWindows = [o \in Operations |-> <<>>]
    /\ redisKeys = [o \in Operations |-> NoEntry]
    /\ secConfig \in RateConfigs
    /\ secCheck = NoCheck
    /\ PrsIdle

\* a call of checkCommand runs up to its first await: the enabled test and,
\* through checkRateLimit and checkLimit, the backend's synchronous increment
\* The callers are interchangeable, so they call in the order of their numbers.
BeginCheck(c, k, user) ==
    /\ calls[c].pc = "idle"
    /\ \A d \in 1..(c - 1) : calls[d].pc # "idle"
    /\ IF ~secConfig.enabled
       THEN /\ calls' = [calls EXCEPT ![c] = [IdleCall EXCEPT !.pc = "done", !.cmd = k,
                                                              !.user = user]]
            /\ UNCHANGED <<counts, rateWindows, redisKeys>>
       ELSE LET r == checkRateLimit(rateLimits, counts, "exec", clock)
            IN  /\ counts' = r.counts
                /\ calls' = [calls EXCEPT ![c] =
                                [pc |-> "awaiting", cmd |-> k, user |-> user,
                                 metered |-> r.metered, rateCheck |-> r.result,
                                 result |-> AllowedResult]]
                /\ rateWindows' =
                      IF r.metered
                      THEN [rateWindows EXCEPT !["exec"] =
                               RecordCheck(@, clock, r.result.allowed)]
                      ELSE rateWindows
                /\ redisKeys' =
                      IF r.metered
                      THEN redisIncrement(redisKeys, "exec", clock, WindowTicks)
                      ELSE redisKeys
    /\ UNCHANGED <<rateLimits, clock, logsAccess, secVars>>
    /\ UNCHANGED <<bufVars, mgrVars, sesVars, dmxVars, brkVars, hdlVars>>

\* the call resumes after the await and runs the remaining checks
FinishCheck(c) ==
    /\ calls[c].pc = "awaiting"
    /\ calls' = [calls EXCEPT ![c] =
                    [@ EXCEPT !.pc = "done",
                              !.result = checkCommandOf[secConfig,
                                                        <<calls[c].cmd, calls[c].user>>,
                                                        calls[c].rateCheck.allowed]]]
    /\ UNCHANGED <<rateLimits, counts, clock, logsAccess, rateWindows, redisKeys, secVars>>
    /\ UNCHANGED <<bufVars, mgrVars, sesVars, dmxVars, brkVars, hdlVars>>

\* checkLogsAccess: return this.checkRateLimit('logs')
CheckLogsAccess ==
    /\ logsAccess.n < MaxLogsChecks
    /\ IF ~secConfig.enabled
       THEN /\ logsAccess' = [n |-> logsAccess.n + 1, result |-> AllowedResult]
            /\ UNCHANGED <<counts, rateWindows, redisKeys>>
       ELSE LET r == checkRateLimit(rateLimits, counts, "logs", clock)
            IN  /\ counts' = r.counts
                /\ logsAccess' = [n |-> logsAccess.n + 1, result |-> r.result]
                /\ rateWindows' =
                      IF r.metered
                      THEN [rateWindows EXCEPT !["logs"] =
                               RecordCheck(@, clock, r.result.allowed)]
                      ELSE rateWindows
                /\ redisKeys' =
                      IF r.metered
                      THEN redisIncrement(redisKeys, "logs", clock, WindowTicks)
                      ELSE redisKeys
    /\ UNCHANGED <<rateLimits, clock, calls, secVars>>
    /\ UNCHANGED <<bufVars, mgrVars, sesVars, dmxVars, brkVars, hdlVars>>

\* time passes
RateTick ==
    /\ clock < MaxClock
    /\ clock' = clock + 1
    /\ UNCHANGED <<rateLimits, counts, calls, logsAccess, rateWindows, redisKeys, secVars>>
    /\ UNCHANGED <<bufVars, mgrVars, sesVars, dmxVars, brkVars, hdlVars>>

\* the backend's cleanup interval: entries whose window is over are deleted
RateCleanup ==
    /\ \E o \in Operations : counts[o].present /\ counts[o].resetAt < clock
    /\ counts' = [o \in Operations |->
                     IF counts[o].present /\ counts[o].resetAt < clock
                     THEN NoEntry ELSE counts[o]]
    /\ UNCHANGED <<rateLimits, clock, calls, logsAccess, rateWindows, redisKeys, secVars>>
    /\ UNCHANGED <<bufVars, mgrVars, sesVars, dmxVars, brkVars, hdlVars>>

----------------------------------------------------------------------------
(* StreamDemuxer.demuxStream.  A Buffer is a sequence of bytes, a string a  *)
(* sequence of UTF-16 code units.  The generator is followed from one       *)
(* suspension (an await of the source stream, a yield) to the next.         *)

\* bounds of the demultiplexer model: MAX_FRAME_SIZE and MAX_BUFFER_SIZE
\* scaled down (a frame waiting for its payload stays below the ceiling, as
\* 10 MB + 8 does below 50 MB), the reads of one stream, the chunks followed
MaxFrameSize == 2
MaxBufferSize == 10
MaxReads == 3
MaxYielded == 16

\* StreamDemuxer.HEADER_SIZE
HEADER_SIZE == 8

\* the chunkSize values: a negative number, a small one, the schema's default
ChunkSizes == {-1, 2, 16384}

\* an index of Buffer.slice brought into 0..len
SliceIndex(x, len) == IF x < 0 THEN Max(len + x, 0) ELSE Min(x, len)

\* Buffer.prototype.slice(start, end), indices counted from 0
BufSlice(b, start, end) ==
    LET s == SliceIndex(start, Len(b))
        e == SliceIndex(end, Len(b))
    IN  IF e <= s THEN <<>> ELSE SubSeq(b, s + 1, e)

\* Buffer.prototype.slice(start)
BufSliceFrom(b, start) == BufSlice(b, start, Len(b))

\* Buffer.prototype.readUInt32BE(at)
ReadUInt32BE(b, at) ==
    b[at + 1] * 16777216 + b[at + 2] * 65536 + b[at + 3] * 256 + b[at + 4]

\* Buffer.prototype.toString('utf8') for bytes below 0xE0: one- and two-byte
\* sequences are decoded, every other byte becomes U+FFFD
RECURSIVE ToStringUtf8(_)
ToStringUtf8(b) ==
    IF b = <<>> THEN <<>>
    ELSE IF b[1] < 128 THEN <<b[1]>> \o ToStringUtf8(Tail(b))
    ELSE IF b[1] \in 194..223 /\ Len(b) >= 2 /\ b[2] \in 128..191
         THEN <<(b[1] - 192) * 64 + (b[2] - 128)>> \o ToStringUtf8(SubSeq(b, 3, Len(b)))
         ELSE <<65533>> \o ToStringUtf8(Tail(b))

\* isValidHeader
isValidHeader(header) ==
    /\ Len(header) >= HEADER_SIZE
    /\ header[1] \in {1, 2}
    /\ \A k \in 2..4 : header[k] = 0
    /\ ReadUInt32BE(header, 4) > 0
    /\ ReadUInt32BE(header, 4) <= MaxFrameSize

\* detectMultiplexed
detectMultiplexed(buf) ==
    IF Len(buf) < HEADER_SIZE THEN TRUE
    ELSE IF ~isValidHeader(BufSlice(buf, 0, HEADER_SIZE)) THEN FALSE
    ELSE LET secondFrameStart == HEADER_SIZE + ReadUInt32BE(buf, 4)
         IN  IF Len(buf) >= secondFrameStart + HEADER_SIZE
             THEN isValidHeader(BufSlice(buf, secondFrameStart,
                                         secondFrameStart + HEADER_SIZE))
             ELSE TRUE

\* a yielded chunk (the timestamp is left out)
Chunk(ch, data) == [channel |-> ch, data |-> data]

\* where the generator is after a run, and what it yielded on the way
Suspended(at, buf, cd, pl, off, ch, out) ==
    [dpc |-> at, buffer |-> buf, corruptionDetected |-> cd, payload |-> pl,
     offset |-> off, channel |-> ch, out |-> out]

\* the unframed branch: while (buffer.length > 0), up to its yield
PlainLoop(buf, cd, size) ==
    IF Len(buf) > 0
    THEN LET n == Min(Len(buf), size)
         IN  Suspended("plain", BufSliceFrom(buf, n), cd, <<>>, 0, "stdout",
                       <<Chunk("stdout", ToStringUtf8(BufSlice(buf, 0, n)))>>)
    ELSE Suspended("await", buf, cd, <<>>, 0, "stdout", <<>>)

\* the loop over a frame's payload: while (offset < payload.length), up to its
\* yield; offset advances by the length of the decoded string
PayloadLoop(buf, cd, pl, off, ch, size) ==
    LET chunkData == ToStringUtf8(BufSlice(pl, off, Min(off + size, Len(pl))))
    IN  Suspended("payload", buf, cd, pl, off + Len(chunkData), ch,
                  <<Chunk(ch, chunkData)>>)

\* the first position after 0 where the recovery scan sees a valid header, 0
\* when it sees none: for (let i = 1; i < buffer.length - HEADER_SIZE; i++)
RecoveryIndex(buf) ==
    LET found == {i \in 1..(Len(buf) - HEADER_SIZE - 1) :
                     isValidHeader(BufSlice(buf, i, i + HEADER_SIZE))}
    IN  IF found = {} THEN 0 ELSE CHOOSE i \in found : \A j \in found : i <= j

\* a valid header was found at i: buffer = buffer.slice(i); continue.  The
\* loop was entered with processed = false, so its test ends it
Recover(buf, i) ==
    Suspended("await", BufSliceFrom(buf, i), TRUE, <<>>, 0, "stdout", <<>>)

\* the frame loop takes its branch 'no valid header found': the header at 0
\* is invalid and the scan found nothing
GivesUp(buf) ==
    /\ Len(buf) >= HEADER_SIZE
    /\ ~isValidHeader(BufSlice(buf, 0, HEADER_SIZE))
    /\ RecoveryIndex(buf) = 0

\* the framed branch: while (processed && buffer.length >= HEADER_SIZE),
\* entered with processed = true, up to its yield or its end
FrameLoop(buf, cd, size) ==
    IF Len(buf) < HEADER_SIZE
    THEN Suspended("await", buf, cd, <<>>, 0, "stdout", <<>>)
    ELSE IF ~isValidHeader(BufSlice(buf, 0, HEADER_SIZE))
    THEN IF RecoveryIndex(buf) # 0
         THEN Recover(buf, RecoveryIndex(buf))
         ELSE Suspended("await", <<>>, TRUE, <<>>, 0, "stdout",
                        <<Chunk("stdout", ToStringUtf8(buf))>>)
    ELSE LET payloadSize == ReadUInt32BE(buf, 4)
         IN  IF Len(buf) < HEADER_SIZE + payloadSize
             THEN Suspended("await", buf, cd, <<>>, 0, "stdout", <<>>)
             ELSE PayloadLoop(BufSliceFrom(buf, HEADER_SIZE + payloadSize), cd,
                              BufSlice(buf, HEADER_SIZE, HEADER_SIZE + payloadSize),
                              0, IF buf[1] = 1 THEN "stdout" ELSE "stderr", size)

\* what the runtime sends: frames, and runs of bytes that are no frame
Frame(t, p) == [kind |-> "frame", type |-> t, payload |-> p]

Raw(bytes) == [kind |-> "raw", type |-> 0, payload |-> bytes]

\* the bytes of a segment; a frame is its 8-byte header and its payload
BytesOfSegment(s) ==
    IF s.kind = "frame"
    THEN <<s.type, 0, 0, 0, 0, 0, 0, Len(s.payload)>> \o s.payload
    ELSE s.payload

RECURSIVE BytesOfSegments(_)
BytesOfSegments(segs) ==
    IF segs = <<>> THEN <<>>
    ELSE BytesOfSegment(Head(segs)) \o BytesOfSegments(Tail(segs))

\* payloads: 'A', 'é' (0xC3 0xA9), 'AB'
Payloads == {<<65>>, <<195, 169>>, <<65, 66>>}

Frames == {Frame(t, p) : t \in {1, 2}, p \in Payloads}

\* bytes that are no valid header: a stray byte, a header of stream type 3
Junk == {Raw(<<9>>), Raw(<<3, 0, 0, 0, 0, 0, 0, 1>>)}

\* unframed output: 'Hi', 'Hello wor', 'café ok!'
PlainTexts == {<<72, 105>>,
               <<72, 101, 108, 108, 111, 32, 119, 111, 114>>,
               <<99, 97, 102, 195, 169, 32, 111, 107, 33>>}

WellFormedStreams ==
    {<<f>> : f \in Frames} \cup {<<f, g>> : f \in Frames, g \in Frames}

\* a frame, corruption, a frame, and possibly one more frame
CorruptedStreams ==
    {<<Frame(1, <<65>>), j, f>> \o tail :
        j \in Junk, f \in Frames, tail \in {<<>>, <<Frame(2, <<65>>)>>}}

PlainStreams ==
    {<<Raw(t)>> : t \in PlainTexts} \cup {<<j, Frame(1, <<65>>)>> : j \in Junk}

DmxIdle ==
    /\ segments = <<>>
    /\ stream = <<>>
    /\ chunkSize = 16384
    /\ buffer = <<>>
    /\ isMultiplexed = "null"
    /\ corruptionDetected = FALSE
    /\ dpc = "idle"
    /\ payload = <<>>
    /\ offset = 0
    /\ channel = "stdout"
    /\ yielded = <<>>
    /\ reads = 0
    /\ held = 0
    /\ gaveUp = FALSE

\* demuxStream(stream, chunkSize) called: the generator waits for the first read
DmxInit ==
    /\ segments \in WellFormedStreams \cup CorruptedStreams \cup PlainStreams
    /\ stream = BytesOfSegments(segments)
    /\ chunkSize \in ChunkSizes
    /\ buffer = <<>>
    /\ isMultiplexed = "null"
    /\ corruptionDetected = FALSE
    /\ dpc = "await"
    /\ payload = <<>>
    /\ offset = 0
    /\ channel = "stdout"
    /\ yielded = <<>>
    /\ reads = 0
    /\ held = 0
    /\ gaveUp = FALSE

\* the generator goes on to its next suspension
Suspend(g) ==
    /\ dpc' = g.dpc
    /\ buffer' = g.buffer
    /\ corruptionDetected' = g.corruptionDetected
    /\ payload' = g.payload
    /\ offset' = g.offset
    /\ channel' = g.channel
    /\ yielded' = yielded \o g.out

\* the source stream delivers its next n bytes: the body of for await, from
\* the overflow test to the first yield or to the next await
DemuxRead(n) ==
    /\ dpc = "await"
    /\ n \in 1..Len(stream)
    /\ reads + 1 < MaxReads \/ n = Len(stream)
    /\ Len(buffer) <= MaxBufferSize
    /\ LET grown == buffer \o SubSeq(stream, 1, n)
           mux == IF isMultiplexed = "null" /\ Len(grown) >= HEADER_SIZE
                  THEN IF detectMultiplexed(grown) THEN "true" ELSE "false"
                  ELSE isMultiplexed
       IN  /\ isMultiplexed' = mux
           /\ held' = Max(held, Len(grown))
           /\ gaveUp' = (gaveUp \/ (mux = "true" /\ GivesUp(grown)))
           /\ Suspend(IF mux = "false" THEN PlainLoop(grown, corruptionDetected, chunkSize)
                      ELSE IF mux = "true" THEN FrameLoop(grown, corruptionDetected, chunkSize)
                      ELSE Suspended("await", grown, corruptionDetected, <<>>, 0, "stdout", <<>>))
    /\ stream' = SubSeq(stream, n + 1, Len(stream))
    /\ reads' = reads + 1
    /\ UNCHANGED <<segments, chunkSize>>
    /\ UNCHANGED <<bufVars, mgrVars, sesVars, secVars, rateVars, brkVars, hdlVars>>

\* a read arrives while the buffer is over the ceiling: the generator throws
DemuxOverflow(n) ==
    /\ dpc = "await"
    /\ n \in 1..Len(stream)
    /\ Len(buffer) > MaxBufferSize
    /\ dpc' = "failed"
    /\ stream' = SubSeq(stream, n + 1, Len(stream))
    /\ reads' = reads + 1
    /\ UNCHANGED <<segments, chunkSize, buffer, isMultiplexed, corruptionDetected,
                   payload, offset, channel, yielded, held, gaveUp>>
    /\ UNCHANGED <<bufVars, mgrVars, sesVars, secVars, rateVars, brkVars, hdlVars>>

\* the consumer asks for the next chunk after a yield inside a loop
DemuxResume ==
    /\ dpc \in {"plain", "payload"}
    /\ Len(yielded) < MaxYielded
    /\ Suspend(IF dpc = "plain" THEN PlainLoop(buffer, corruptionDetected, chunkSize)
               ELSE IF offset < Len(payload)
                    THEN PayloadLoop(buffer, corruptionDetected, payload, offset,
                                     channel, chunkSize)
                    ELSE FrameLoop(buffer, corruptionDetected, chunkSize))
    /\ gaveUp' = (gaveUp \/ (dpc = "payload" /\ offset >= Len(payload)
                                /\ GivesUp(buffer)))
    /\ UNCHANGED <<segments, stream, chunkSize, isMultiplexed, reads, held>>
    /\ UNCHANGED <<bufVars, mgrVars, sesVars, secVars, rateVars, brkVars, hdlVars>>

\* the source stream ends: the remaining buffer is yielded as stdout
DemuxEnd ==
    /\ dpc = "await"
    /\ stream = <<>>
    /\ dpc' = "done"
    /\ yielded' = IF Len(buffer) > 0
                  THEN Append(yielded, Chunk("stdout", ToStringUtf8(buffer)))
                  ELSE yielded
    /\ buffer' = <<>>
    /\ UNCHANGED <<segments, stream, chunkSize, isMultiplexed, corruptionDetected,
                   payload, offset, channel, reads, held, gaveUp>>
    /\ UNCHANGED <<bufVars, mgrVars, sesVars, secVars, rateVars, brkVars, hdlVars>>

----------------------------------------------------------------------------
(* CircuitBreaker.  execute runs up to the invocation of the wrapped       *)
(* operation in one step; the operation settles, or the breaker's timeout  *)
(* rejects the race, in a later step.  Several calls can be in flight.     *)

\* bounds of the breaker model: the calls of execute, the thresholds, the
\* reset timeout and the clock, in ticks
NumOps == 5
FailureThresholdBound == 2
SuccessThresholdBound == 2
ResetTimeoutTicks == 2
MaxBrkTime == 3

OpIds == 1..NumOps

\* the fields of the breaker that onSuccess and onFailure work on
Breaker(st, f, s, na) == [state |-> st, failures |-> f, successes |-> s, nextAttempt |-> na]

ThisBreaker == Breaker(state, failures, successes, nextAttempt)

\* an onSuccess that leaves the failure count alone
onSuccess_KeepFailures(b, opts) ==
    IF b.state = "HALF_OPEN"
    THEN IF b.successes + 1 >= opts.successThreshold
         THEN Breaker("CLOSED", b.failures, 0, b.nextAttempt)
         ELSE Breaker("HALF_OPEN", b.failures, b.successes + 1, b.nextAttempt)
    ELSE b

\* onSuccess
onSuccess(b, opts) ==
    IF b.state = "HALF_OPEN"
    THEN IF b.successes + 1 >= opts.successThreshold
         THEN Breaker("CLOSED", 0, 0, b.nextAttempt)
         ELSE Breaker("HALF_OPEN", 0, b.successes + 1, b.nextAttempt)
    ELSE Breaker(b.state, 0, b.successes, b.nextAttempt)

\* an onFailure that re-opens from HALF_OPEN without a new reset time
onFailure_StaleReset(b, opts, at) ==
    IF b.state = "HALF_OPEN"
    THEN Breaker("OPEN", b.failures + 1, 0, b.nextAttempt)
    ELSE IF b.state = "CLOSED" /\ b.failures + 1 >= opts.failureThreshold
         THEN Breaker("OPEN", b.failures + 1, 0, at + opts.resetTimeout)
         ELSE Breaker(b.state, b.failures + 1, 0, b.nextAttempt)

\* an onFailure that leaves the successes counted so far
onFailure_KeepSuccesses(b, opts, at) ==
    IF b.state = "HALF_OPEN"
    THEN Breaker("OPEN", b.failures + 1, b.successes, at + opts.resetTimeout)
    ELSE IF b.state = "CLOSED" /\ b.failures + 1 >= opts.failureThreshold
         THEN Breaker("OPEN", b.failures + 1, b.successes, at + opts.resetTimeout)
         ELSE Breaker(b.state, b.failures + 1, b.successes, b.nextAttempt)

\* onFailure, called at time at
onFailure(b, opts, at) ==
    IF b.state = "HALF_OPEN"
    THEN Breaker("OPEN", b.failures + 1, 0, at + opts.resetTimeout)
    ELSE IF b.state = "CLOSED" /\ b.failures + 1 >= opts.failureThreshold
         THEN Breaker("OPEN", b.failures + 1, 0, at + opts.resetTimeout)
         ELSE Breaker(b.state, b.failures + 1, 0, b.nextAttempt)

IdleOp == [pc |-> "idle", outcome |-> "none"]

\* an event of the history: what happened, to which call, the state before
\* and after, the time, the reset time before and after, and whether the
\* probe of the current HALF_OPEN period was still running
Event(kind, c, b, at) ==
    [kind |-> kind, op |-> c, before |-> state, after |-> b.state, at |-> at,
     due |-> nextAttempt, dueAfter |-> b.nextAttempt,
     probePending |-> brkLog.probePending]

NoEvent ==
    [kind |-> "none", op |-> 0, before |-> "CLOSED", after |-> "CLOSED", at |-> 0,
     due |-> 0, dueAfter |-> 0, probePending |-> FALSE]

\* the history kept: the last event, the failures since the last success,
\* the successes since the breaker became HALF_OPEN, the call that made it
\* HALF_OPEN and whether that call is still running
NoHistory ==
    [last |-> NoEvent, failureRun |-> 0, sinceHalfOpen |-> 0, probe |-> 0,
     probePending |-> FALSE]

SetBreaker(b) ==
    /\ state' = b.state
    /\ failures' = b.failures
    /\ successes' = b.successes
    /\ nextAttempt' = b.nextAttempt

BrkIdle ==
    /\ options = [failureThreshold |-> 1, successThreshold |-> 1,
                  resetTimeout |-> ResetTimeoutTicks]
    /\ state = "CLOSED"
    /\ failures = 0
    /\ successes = 0
    /\ nextAttempt = 0
    /\ brkNow = 0
    /\ ops = [c \in OpIds |-> IdleOp]
    /\ brkLog = NoHistory

\* new CircuitBreaker(options)
BrkInit ==
    /\ \E ft \in 1..FailureThresholdBound, st \in 1..SuccessThresholdBound :
          options = [failureThreshold |-> ft, successThreshold |-> st,
                     resetTimeout |-> ResetTimeoutTicks]
    /\ state = "CLOSED"
    /\ failures = 0
    /\ successes = 0
    /\ nextAttempt = 0
    /\ brkNow = 0
    /\ ops = [c \in OpIds |-> IdleOp]
    /\ brkLog = NoHistory

\* execute(operation), up to its await: the call is rejected while the
\* breaker is OPEN and the reset time lies ahead, else the operation is
\* invoked, after a move from OPEN to HALF_OPEN when the reset time has passed
Execute(c) ==
    /\ ops[c].pc = "idle"
    /\ \A d \in 1..(c - 1) : ops[d].pc # "idle"
    /\ IF state = "OPEN" /\ brkNow < nextAttempt
       THEN /\ ops' = [ops EXCEPT ![c] = [pc |-> "done", outcome |-> "rejected"]]
            /\ brkLog' = [brkLog EXCEPT !.last = Event("reject", c, ThisBreaker, brkNow)]
            /\ UNCHANGED <<state, failures, successes, nextAttempt>>
       ELSE LET b == Breaker(IF state = "OPEN" THEN "HALF_OPEN" ELSE state,
                             failures, successes, nextAttempt)
            IN  /\ ops' = [ops EXCEPT ![c] = [pc |-> "running", outcome |-> "none"]]
                /\ brkLog' = IF state = "OPEN"
                             THEN [brkLog EXCEPT !.last = Event("invoke", c, b, brkNow),
                                                 !.sinceHalfOpen = 0,
                                                 !.probe = c,
                                                 !.probePending = TRUE]
                             ELSE [brkLog EXCEPT !.last = Event("invoke", c, b, brkNow)]
                /\ SetBreaker(b)
    /\ UNCHANGED <<options, brkNow>>
    /\ UNCHANGED <<bufVars, mgrVars, sesVars, secVars, rateVars, dmxVars, hdlVars>>

\* the race settles: the operation resolves (ok), or it rejects or the
\* timeout fires first (~ok)
Settle(c, ok) ==
    /\ ops[c].pc = "running"
    /\ LET b == IF ok THEN onSuccess(ThisBreaker, options)
                ELSE onFailure(ThisBreaker, options, brkNow)
       IN  /\ SetBreaker(b)
           /\ brkLog' = [last |-> Event(IF ok THEN "success" ELSE "failure", c, b, brkNow),
                         failureRun |-> IF ok THEN 0 ELSE brkLog.failureRun + 1,
                         sinceHalfOpen |-> IF ok /\ state = "HALF_OPEN"
                                           THEN brkLog.sinceHalfOpen + 1
                                           ELSE brkLog.sinceHalfOpen,
                         probe |-> brkLog.probe,
                         probePending |-> brkLog.probePending /\ c # brkLog.probe]
    /\ ops' = [ops EXCEPT ![c] = [pc |-> "done",
                                  outcome |-> IF ok THEN "success" ELSE "failure"]]
    /\ UNCHANGED <<options, brkNow>>
    /\ UNCHANGED <<bufVars, mgrVars, sesVars, secVars, rateVars, dmxVars, hdlVars>>

\* time passes
BrkTick ==
    /\ brkNow < MaxBrkTime
    /\ brkNow' = brkNow + 1
    /\ UNCHANGED <<options, state, failures, successes, nextAttempt, ops, brkLog>>
    /\ UNCHANGED <<bufVars, mgrVars, sesVars, secVars, rateVars, dmxVars, hdlVars>>

----------------------------------------------------------------------------
(* The tool-call handler for docker_exec: the security check, the audit    *)
(* entry, DockerManager.exec seen from its caller (the result it returns   *)
(* or the error result its catch block builds), and the sanitizer of       *)
(* ErrorHandler.  Messages are sequences of UTF-16 code units.             *)

\* bounds of the handler model: the tool calls followed
NumToolCalls == 2

ToolCallIds == 1..NumToolCalls

\* n copies of an atom
Repeat(a, n) == [k \in 1..n |-> a]

HexChars == (48..57) \cup (97..102)

DecimalChars == 48..57

\* [a-zA-Z0-9_\-./]
PathChars == (97..122) \cup (65..90) \cup (48..57) \cup {95, 45, 46, 47}

\* /[0-9a-f]{64}/g
containerIdPattern ==
    [ci |-> FALSE, alts |-> <<Repeat(Cls(FALSE, HexChars, FALSE, "1"), 64)>>]

\* /[0-9a-f]{12}/g
shortIdPattern ==
    [ci |-> FALSE, alts |-> <<Repeat(Cls(FALSE, HexChars, FALSE, "1"), 12)>>]

\* [0-9]{1,3}
Octet ==
    <<Cls(FALSE, DecimalChars, FALSE, "1"), Cls(FALSE, DecimalChars, FALSE, "?"),
      Cls(FALSE, DecimalChars, FALSE, "?")>>

\* /\b(?:[0-9]{1,3}\.){3}[0-9]{1,3}\b/g
ipAddressPattern ==
    [ci |-> FALSE,
     alts |-> << <<WordB>> \o Octet \o <<Lit(46)>> \o Octet \o <<Lit(46)>> \o Octet
                    \o <<Lit(46)>> \o Octet \o <<WordB>> >>]

\* /:[0-9]{2,5}/g
portPattern ==
    [ci |-> FALSE,
     alts |-> << <<Lit(58), Cls(FALSE, DecimalChars, FALSE, "1"),
                   Cls(FALSE, DecimalChars, FALSE, "1"), Cls(FALSE, DecimalChars, FALSE, "?"),
                   Cls(FALSE, DecimalChars, FALSE, "?"), Cls(FALSE, DecimalChars, FALSE, "?")>> >>]

\* the group of /\/[a-zA-Z0-9_\-./]+\/(docker|containers|var\/lib)/g
PathGroup == <<<<100, 111, 99, 107, 101, 114>>,
               <<99, 111, 110, 116, 97, 105, 110, 101, 114, 115>>,
               <<118, 97, 114, 47, 108, 105, 98>>>>

\* the path pattern with the group fixed to its k-th alternative
PathPattern(k) ==
    <<Lit(47), Cls(FALSE, PathChars, FALSE, "+"), Lit(47)>>
        \o [j \in 1..Len(PathGroup[k]) |-> Lit(PathGroup[k][j])]

\* String.prototype.replace(re, repl) with the g flag, from position i on:
\* the text up to the leftmost match, the replacement, and the rest after
\* the match
RECURSIVE ReplaceFrom(_, _, _, _)
ReplaceFrom(re, text, i, repl) ==
    LET starts == {j \in i..Len(text) : AltsMatchEnd(re.alts, text, j, re.ci) > j}
    IN  IF starts = {} THEN SubSeq(text, i, Len(text))
        ELSE TheOne({SubSeq(text, i, j - 1) \o repl
                        \o ReplaceFrom(re, text, AltsMatchEnd(re.alts, text, j, re.ci), repl) :
                        j \in {CHOOSE a \in starts : \A c \in starts : a <= c}})

ReplaceAll(re, text, repl) == ReplaceFrom(re, text, 1, repl)

\* the match of the path pattern at i: the end of the match and the
\* alternative of the group, for the longest run of [...]+ that lets one of
\* the alternatives match; end 0 when there is none
PathMatchAt(text, i) ==
    LET ends == [k \in 1..Len(PathGroup) |-> MatchEnd(PathPattern(k), 1, text, i, FALSE)]
        hits == {k \in 1..Len(PathGroup) : ends[k] # 0}
    IN  IF hits = {} THEN [end |-> 0, k |-> 0]
        ELSE LET k == CHOOSE a \in hits :
                        \A b \in hits :
                            ends[a] - Len(PathGroup[a]) >= ends[b] - Len(PathGroup[b])
             IN  [end |-> ends[k], k |-> k]

\* .replace(/\/[a-zA-Z0-9_\-./]+\/(docker|containers|var\/lib)/g, '/<path>/$1')
RECURSIVE ReplacePathsFrom(_, _)
ReplacePathsFrom(text, i) ==
    LET starts == {j \in i..Len(text) : PathMatchAt(text, j).end > j}
    IN  IF starts = {} THEN SubSeq(text, i, Len(text))
        ELSE TheOne({SubSeq(text, i, m.start - 1) \o <<47, 60, 112, 97, 116, 104, 62, 47>> \o PathGroup[m.k]
                        \o ReplacePathsFrom(text, m.end) :
                        m \in {TheOne({[start |-> j] @@ PathMatchAt(text, j) :
                                    j \in {CHOOSE a \in starts : \A c \in starts : a <= c}})}})

\* a sanitizer that returns the message as it is
sanitizeErrorMessage_Raw(message) == message

\* ErrorHandler.sanitizeErrorMessage: the five replacements, one after the
\* other
sanitizeErrorMessage(message) ==
    TheOne({TheOne({TheOne({TheOne({
        ReplaceAll(portPattern, ips, <<58, 60, 112, 111, 114, 116, 62>>) :
            ips \in {ReplaceAll(ipAddressPattern, shorts, <<60, 105, 112, 45, 97, 100, 100, 114, 101, 115, 115, 62>>)}}) :
            shorts \in {ReplaceAll(shortIdPattern, ids, <<60, 115, 104, 111, 114, 116, 45, 105, 100, 62>>)}}) :
            ids \in {ReplaceAll(containerIdPattern, paths, <<60, 99, 111, 110, 116, 97, 105, 110, 101, 114, 45, 105, 100, 62>>)}}) :
            paths \in {ReplacePathsFrom(message, 1)}})

\* messages of the errors the runtime raises
ErrorMessages ==
    << \* 'Operation failed'
       <<79, 112, 101, 114, 97, 116, 105, 111, 110, 32, 102, 97, 105, 108, 101, 100>>,
       \* 'connect ECONNREFUSED 10.0.0.5:2375'
       <<99, 111, 110, 110, 101, 99, 116, 32, 69, 67, 79, 78, 78, 82, 69, 70, 85, 83, 69, 68, 32, 49, 48, 46, 48, 46, 48, 46, 53, 58, 50, 51, 55, 53>>,
       \* 'No such container: 0123456789ab'
       <<78, 111, 32, 115, 117, 99, 104, 32, 99, 111, 110, 116, 97, 105, 110, 101, 114, 58, 32, 48, 49, 50, 51, 52, 53, 54, 55, 56, 57, 97, 98>>,
       \* 'open /var/lib/docker/x: permission denied'
       <<111, 112, 101, 110, 32, 47, 118, 97, 114, 47, 108, 105, 98, 47, 100, 111, 99, 107, 101, 114, 47, 120, 58, 32, 112, 101, 114, 109, 105, 115, 115, 105, 111, 110, 32, 100, 101, 110, 105, 101, 100>>,
       \* 'No such container: <64 hex digits>'
       <<78, 111, 32, 115, 117, 99, 104, 32, 99, 111, 110, 116, 97, 105, 110, 101, 114, 58, 32, 51, 102, 52, 101, 56, 97, 50, 98, 57, 99, 49, 100, 48, 97, 49, 98, 50, 99, 51, 100, 52, 101, 53, 102, 48, 97, 49, 98, 50, 99, 51, 100, 52, 101, 53, 102, 48, 97, 49, 98, 50, 99, 51, 100, 52, 101, 53, 102, 48, 97, 49, 98, 50, 99, 51, 100, 52, 101, 53, 102, 54, 48, 55, 49>> >>

\* the errors the runtime raises: a message, and the statusCode of the HTTP
\* errors (0 when the error has none)
RuntimeErrors ==
    {[message |-> 1, statusCode |-> 0], [message |-> 2, statusCode |-> 0],
     [message |-> 3, statusCode |-> 404], [message |-> 4, statusCode |-> 500],
     [message |-> 5, statusCode |-> 404]}

\* the decisions of SecurityManager.checkCommand the handler sees
Decisions ==
    {AllowedResult, DeniedResult("Rate limit exceeded"),
     DeniedResult("Command matches denylist")}

NoResponse == [kind |-> "none", isError |-> FALSE, fields |-> {}, error |-> <<>>, reason |-> "none"]

NoRecord == [type |-> "none", error |-> <<>>]

\* a tool call: where the handler is, the decision of checkCommand, what the
\* caller received, the last record of a streamed exec, and the message of
\* the error the runtime raised (0: none)
IdleToolCall ==
    [pc |-> "idle", stream |-> FALSE, decision |-> AllowedResult,
     response |-> NoResponse, record |-> NoRecord, raised |-> 0]

\* every message of ErrorMessages after the sanitizer
SanitizedMessages ==
    [m \in 1..Len(ErrorMessages) |-> sanitizeErrorMessage(ErrorMessages[m])]

\* the entry logExec writes: the request, blocked and the reason
AuditEntry(t, blocked, reason) == [request |-> t, blocked |-> blocked, reason |-> reason]

\* AuditLogger.writeEntry: nothing is queued once the logger is closed
writeEntry(queue, isClosed, entry) ==
    IF isClosed THEN queue ELSE Append(queue, entry)

\* a logExec that leaves the denial out of the entry
logExec_Unmarked(queue, enabled, isClosed, entry) ==
    IF ~enabled THEN queue
    ELSE writeEntry(queue, isClosed, AuditEntry(entry.request, FALSE, "none"))

\* AuditLogger.logExec: nothing is written when config.audit.enabled is false
logExec(queue, enabled, isClosed, entry) ==
    IF ~enabled THEN queue ELSE writeEntry(queue, isClosed, entry)

\* throw new Error('Command blocked by security policy: ' + reason)
Thrown(reason) ==
    [kind |-> "thrown", isError |-> FALSE, fields |-> {}, error |-> <<>>, reason |-> reason]

\* the result DockerManager.exec returns when the session ends
ExecResult ==
    [kind |-> "result", isError |-> FALSE, fields |-> {}, error |-> <<>>, reason |-> "none"]

\* the catch block of DockerManager.exec: JSON.stringify leaves out code
\* when the error has no statusCode
ExecCatch(error) ==
    [kind |-> "result", isError |-> TRUE,
     fields |-> {"error", "duration", "sessionId", "traceId"}
                    \cup (IF error.statusCode # 0 THEN {"code"} ELSE {}),
     error |-> ErrorMessages[error.message], reason |-> "none"]

\* the catch block of the generator of ExecSession.handleStreaming
ExecErrorRecord(error) == [type |-> "exec_error", error |-> ErrorMessages[error.message]]

HdlInit ==
    /\ auditEnabled \in BOOLEAN
    /\ closed = FALSE
    /\ writeQueue = <<>>
    /\ toolCalls = [t \in ToolCallIds |-> IdleToolCall]
    /\ runtimeExecs = {}

\* a docker_exec request arrives: the handler awaits checkCommand
CallTool(t, streaming) ==
    /\ toolCalls[t].pc = "idle"
    /\ \A u \in ToolCallIds : u < t => toolCalls[u].pc # "idle"
    /\ toolCalls' = [toolCalls EXCEPT ![t].pc = "checking", ![t].stream = streaming]
    /\ UNCHANGED <<auditEnabled, closed, writeQueue, runtimeExecs>>
    /\ UNCHANGED <<bufVars, mgrVars, sesVars, secVars, rateVars, dmxVars, brkVars>>

\* checkCommand settles: a denial is logged and thrown, otherwise
\* DockerManager.exec is called
CheckSettles(t, decision) ==
    /\ toolCalls[t].pc = "checking"
    /\ IF ~decision.allowed
       THEN /\ writeQueue' = logExec(writeQueue, auditEnabled, closed,
                                     AuditEntry(t, TRUE, decision.reason))
            /\ toolCalls' = [toolCalls EXCEPT ![t].pc = "done",
                                              ![t].decision = decision,
                                              ![t].response = Thrown(decision.reason)]
            /\ UNCHANGED runtimeExecs
       ELSE /\ runtimeExecs' = runtimeExecs \cup {t}
            /\ toolCalls' = [toolCalls EXCEPT ![t].pc = "executing",
                                              ![t].decision = decision]
            /\ UNCHANGED writeQueue
    /\ UNCHANGED <<auditEnabled, closed>>
    /\ UNCHANGED <<bufVars, mgrVars, sesVars, secVars, rateVars, dmxVars, brkVars>>

\* DockerManager.exec returns its result, the handler logs it and returns it
ExecReturns(t, failed, error) ==
    /\ toolCalls[t].pc = "executing"
    /\ toolCalls' =
          [toolCalls EXCEPT
              ![t].pc = IF ~failed /\ toolCalls[t].stream THEN "streaming" ELSE "done",
              ![t].response = IF failed THEN ExecCatch(error) ELSE ExecResult,
              ![t].raised = IF failed THEN error.message ELSE 0]
    /\ writeQueue' = logExec(writeQueue, auditEnabled, closed, AuditEntry(t, FALSE, "none"))
    /\ UNCHANGED <<auditEnabled, closed, runtimeExecs>>
    /\ UNCHANGED <<bufVars, mgrVars, sesVars, secVars, rateVars, dmxVars, brkVars>>

\* the generator of a streaming exec ends, with exec_complete or with the
\* exec_error record of its catch block
GeneratorEnds(t, failed, error) ==
    /\ toolCalls[t].pc = "streaming"
    /\ toolCalls' =
          [toolCalls EXCEPT
              ![t].pc = "done",
              ![t].record = IF failed THEN ExecErrorRecord(error)
                            ELSE [type |-> "exec_complete", error |-> <<>>],
              ![t].raised = IF failed THEN error.message ELSE 0]
    /\ UNCHANGED <<auditEnabled, closed, writeQueue, runtimeExecs>>
    /\ UNCHANGED <<bufVars, mgrVars, sesVars, secVars, rateVars, dmxVars, brkVars>>

\* AuditLogger.close, called by shutdown
AuditClose ==
    /\ ~closed
    /\ closed' = TRUE
    /\ UNCHANGED <<auditEnabled, writeQueue, toolCalls, runtimeExecs>>
    /\ UNCHANGED <<bufVars, mgrVars, sesVars, secVars, rateVars, dmxVars, brkVars>>

HdlIdle ==
    /\ auditEnabled = TRUE
    /\ closed = FALSE
    /\ writeQueue = <<>>
    /\ toolCalls = <<>>
    /\ runtimeExecs = {}

----------------------------------------------------------------------------
(* Idle values of the buffer, and the specifications *)

BufIdle ==
    /\ cbuf = NewCircularBuffer(1, 1)
    /\ cbPushed = <<>>

----------------------------------------------------------------------------
(* SpecSession: one session from construction to its terminal state *)

InitSession == SesInit /\ BufIdle /\ MgrIdleWith(1) /\ SecIdle /\ RateIdle /\ DmxIdle /\ BrkIdle /\ HdlIdle

NextSession ==
    \/ Start
    \/ \E hasStdin \in BOOLEAN : ExecStartOk(hasStdin)
    \/ ExecStartFail
    \/ \E ok \in BOOLEAN : StdinDone(ok)
    \/ ProcExit
    \/ \E ch \in Channels, len \in 1..MaxChunkLen : ReadChunk(ch, len)
    \/ ReadEnd
    \/ ReadFails
    \/ \E ok \in BOOLEAN : InspectDone(ok)
    \/ \E ch \in Channels, len \in 1..MaxChunkLen : GenChunk(ch, len)
    \/ GenEnd
    \/ GenFails
    \/ \E ok \in BOOLEAN : GenInspectDone(ok)
    \/ TimerFires
    \/ \E c \in AbortIds : ExternalAbort(c)
    \/ \E c \in AbortIds, ok \in BOOLEAN, pid \in 0..1 : AbortInspect(c, ok, pid)
    \/ \E c \in AbortIds, ok \in BOOLEAN : AbortResize(c, ok)
    \/ \E c \in AbortIds, ok \in BOOLEAN : AbortKillCreate(c, ok)
    \/ \E c \in AbortIds, ok \in BOOLEAN : AbortKillStart(c, ok)
    \/ \E c \in AbortIds : ForceKillFires(c)
    \/ \E c \in AbortIds, ok \in BOOLEAN : ForceKillStep(c, ok)

SpecSession == InitSession /\ [][NextSession]_vars

----------------------------------------------------------------------------
(* SpecSecurity: checkCommand under every config, on the catalogue *)

InitSecurity == SecInit /\ BufIdle /\ MgrIdleWith(1) /\ SesIdle /\ RateIdle /\ DmxIdle /\ BrkIdle /\ HdlIdle

NextSecurity ==
    \E k \in 1..Len(CommandCatalogue), user \in Users, rateOk \in BOOLEAN :
        CheckCommand(k, user, rateOk)

SpecSecurity == InitSecurity /\ [][NextSecurity]_vars

----------------------------------------------------------------------------
(* SpecParser: ShellCommandParser.parse on every command string *)

InitParser ==
    /\ PrsInit
    /\ secConfig = [enabled |-> TRUE, allowRoot |-> FALSE, defaultUser |-> "",
                    mode |-> "none", patterns |-> <<>>]
    /\ secCheck = NoCheck
    /\ BufIdle /\ MgrIdleWith(1) /\ SesIdle /\ RateIdle /\ DmxIdle /\ BrkIdle /\ HdlIdle

NextParser == Parse

SpecParser == InitParser /\ [][NextParser]_vars

----------------------------------------------------------------------------
(* SpecRateLimit: concurrent checkCommand calls, checkLogsAccess and time *)

InitRateLimit == RateInit /\ BufIdle /\ MgrIdleWith(1) /\ SesIdle /\ DmxIdle /\ BrkIdle /\ HdlIdle

NextRateLimit ==
    \/ \E c \in Callers, rq \in RateRequests : BeginCheck(c, rq[1], rq[2])
    \/ \E c \in Callers : FinishCheck(c)
    \/ CheckLogsAccess
    \/ RateTick
    \/ RateCleanup

SpecRateLimit == InitRateLimit /\ [][NextRateLimit]_vars

----------------------------------------------------------------------------
(* SpecDemux: demuxStream on framed, corrupted and unframed streams, split *)
(* into reads at any byte                                                   *)

InitDemux == DmxInit /\ BufIdle /\ MgrIdleWith(1) /\ SesIdle /\ SecIdle /\ RateIdle /\ BrkIdle /\ HdlIdle

NextDemux ==
    \/ \E n \in 1..Len(stream) : DemuxRead(n)
    \/ \E n \in 1..Len(stream) : DemuxOverflow(n)
    \/ DemuxResume
    \/ DemuxEnd

SpecDemux == InitDemux /\ [][NextDemux]_vars

----------------------------------------------------------------------------
(* The specification of the tool-call handler *)

InitHandler ==
    /\ HdlInit
    /\ BufIdle /\ MgrIdleWith(1) /\ SesIdle /\ SecIdle /\ RateIdle /\ DmxIdle /\ BrkIdle

NextHandler ==
    \/ \E t \in ToolCallIds, streaming \in BOOLEAN : CallTool(t, streaming)
    \/ \E t \in ToolCallIds, decision \in Decisions : CheckSettles(t, decision)
    \/ \E t \in ToolCallIds, failed \in BOOLEAN, error \in RuntimeErrors :
          ExecReturns(t, failed, error)
    \/ \E t \in ToolCallIds, failed \in BOOLEAN, error \in RuntimeErrors :
          GeneratorEnds(t, failed, error)
    \/ AuditClose

SpecHandler == InitHandler /\ [][NextHandler]_vars

----------------------------------------------------------------------------
(* SpecBreaker: one CircuitBreaker and the calls made through it *)

InitBreaker ==
    BrkInit /\ BufIdle /\ MgrIdleWith(1) /\ SesIdle /\ SecIdle /\ RateIdle /\ DmxIdle /\ HdlIdle

NextBreaker ==
    \/ \E c \in OpIds : Execute(c)
    \/ \E c \in OpIds, ok \in BOOLEAN : Settle(c, ok)
    \/ BrkTick

SpecBreaker == InitBreaker /\ [][NextBreaker]_vars

----------------------------------------------------------------------------
(* SpecBuffer: one CircularBuffer, any maxItems/maxBytes, any pushes *)

InitBuffer ==
    /\ \E mi \in 1..CbMaxItemsBound, mb \in 1..CbMaxBytesBound :
          cbuf = NewCircularBuffer(mi, mb)
    /\ cbPushed = <<>>
    /\ MgrIdleWith(1)
    /\ SesIdle
    /\ SecIdle
    /\ RateIdle
    /\ DmxIdle
    /\ BrkIdle
    /\ HdlIdle

Push(item) ==
    /\ Len(cbPushed) < CbMaxPushes
    /\ cbuf' = CbPush(cbuf, item)
    /\ cbPushed' = Append(cbPushed, item)
    /\ UNCHANGED <<mgrVars, sesVars, secVars, rateVars, dmxVars, brkVars, hdlVars>>

NextBuffer ==
    \E len \in 1..CbMaxItemLen, w \in CharWidths : Push(Str(len, w))

SpecBuffer == InitBuffer /\ [][NextBuffer]_vars

----------------------------------------------------------------------------
(* Spec: the DockerManager orchestration *)

Init == MgrInit /\ BufIdle /\ SesIdle /\ SecIdle /\ RateIdle /\ DmxIdle /\ BrkIdle /\ HdlIdle

Next ==
    \/ \E r \in Requests : Submit(r)
    \/ LimitDequeue
    \/ \E r \in Requests : CreateExecOk(r)
    \/ \E r \in Requests : CreateExecFail(r)
    \/ \E r \in Requests, o \in StartOutcomes : StartSettles(r, o)
    \/ \E r \in Requests, o \in StreamOutcomes : StreamEnds(r, o)
    \/ Tick
    \/ SweepStart
    \/ SweepVisit
    \/ \E ok \in BOOLEAN : SweepAbortSettled(ok)
    \/ SweepEnd
    \/ CleanupBegin
    \/ \E s \in Requests, ok \in BOOLEAN : CleanupAbortSettled(s, ok)
    \/ CleanupFinish

Spec == Init /\ [][Next]_vars

----------------------------------------------------------------------------
(* Properties of the security checks (SpecSecurity) *)

\* the command string a shell is given after -c
ShellCommandOf(cmd) == cmd[IndexOfDashC(cmd) + 1]

\* the checked command is a shell -c whose command string matches an
\* injection signature or the homoglyph / mixed-script scan
CheckedInjection ==
    /\ secCheck.done
    /\ IsShellCommand(CommandCatalogue[secCheck.cmd])
    /\ ~checkShellInjection(<<ShellCommandOf(CommandCatalogue[secCheck.cmd])>>).allowed

\* C1: with security enabled, a shell -c command whose text matches an
\* injection signature or a homoglyph pattern is denied under every policy
\* mode, mode "none" and an empty pattern list included.
C1_InjectionDeniedInEveryMode ==
    (secConfig.enabled /\ CheckedInjection) => ~secCheck.result.allowed

\* C2: with security enabled and root not allowed, a request whose user is
\* absent, "root" or "0" is denied, whatever the rest of the config.
C2_RootDeniedUnlessAllowed ==
    (secCheck.done /\ secConfig.enabled /\ ~secConfig.allowRoot
        /\ secCheck.user \in {"", "root", "0"}) => ~secCheck.result.allowed

\* some configured pattern matches the checked command
MatchesPattern ==
    \E k \in 1..Len(secConfig.patterns) :
        RegexTest(CompilePattern(secConfig.patterns[k]), Join(CommandCatalogue[secCheck.cmd]))

\* a checked request of a non-root user, no shell -c, that the rate limit, the
\* flag check and the path check let through, under a policy with patterns
PolicyDecides ==
    /\ secCheck.done /\ secConfig.enabled /\ secCheck.rateOk
    /\ secCheck.user = "nobody"
    /\ secConfig.patterns # <<>>
    /\ ~IsShellCommand(CommandCatalogue[secCheck.cmd])
    /\ checkDangerousFlags(CommandCatalogue[secCheck.cmd]).allowed
    /\ checkPaths(CommandCatalogue[secCheck.cmd]).allowed

\* C14: for a non-root request, under denylist a command matching a pattern
\* is denied with a denylist reason and a command matching none is allowed;
\* under allowlist a command matching a pattern ('^ls' and ls -la) is allowed
\* and a command matching none is denied.
C14_PatternDecidesPolicy ==
    PolicyDecides =>
        /\ secConfig.mode = "denylist" =>
              IF MatchesPattern
              THEN /\ ~secCheck.result.allowed
                   /\ secCheck.result.reason = "Command matches denylist"
              ELSE secCheck.result.allowed
        /\ secConfig.mode = "allowlist" => (secCheck.result.allowed <=> MatchesPattern)

\* the checked command, joined, holds ASCII characters only
AsciiCommand ==
    \A c \in CharsOf(Join(CommandCatalogue[secCheck.cmd])) : c < 128

\* C39: a command of ASCII characters only is never flagged by the
\* homoglyph and mixed-script scan, and with security enabled, a non-empty
\* denylist it does not match and a non-root user, such a plain command
\* (ls -la /app) is allowed.
C39_AsciiCommandNotHomoglyph ==
    (PolicyDecides /\ AsciiCommand /\ secConfig.mode = "denylist"
        /\ ~MatchesPattern) =>
        /\ ~containsHomoglyphs(Join(CommandCatalogue[secCheck.cmd]))
        /\ secCheck.result.allowed

----------------------------------------------------------------------------
(* Properties of the parser (SpecParser) *)

\* a command string without substitution, redirection or grouping:  no $,
\* backtick, <, >, ( or )
PlainShell(text) == CharsOf(text) \cap {36, 96, 60, 62, 40, 41} = {}

\* position i lies inside '...' or inside "..." (the command strings hold no
\* quote of one kind inside the other and no escaped quote)
QuotedAt(text, i) ==
    \/ Cardinality({j \in 1..(i - 1) : text[j] = 39}) % 2 = 1
    \/ Cardinality({j \in 1..(i - 1) : text[j] = 34}) % 2 = 1

\* position i stands directly after a backslash that is not itself escaped:
\* the run of backslashes that ends before i is of odd length
EscapedAt(text, i) ==
    LET run == {j \in 1..(i - 1) : \A k \in j..(i - 1) : text[k] = 92}
    IN  Cardinality(run) % 2 = 1

\* the positions of the separator characters that are neither quoted nor
\* escaped
SplitPoints(text) ==
    {i \in 1..Len(text) :
        text[i] \in {59, 124, 38} /\ ~QuotedAt(text, i) /\ ~EscapedAt(text, i)}

\* the text cut at its split points: the pieces between them, trimmed, the
\* empty ones left out
ExpectedCommands(text) ==
    LET cuts == {0, Len(text) + 1} \cup SplitPoints(text)
        cut == [k \in 1..Cardinality(cuts) |->
                   CHOOSE x \in cuts : Cardinality({y \in cuts : y < x}) = k - 1]
    IN  SelectSeq([k \in 1..(Cardinality(cuts) - 1) |->
                      Trim(SubSeq(text, cut[k] + 1, cut[k + 1] - 1))],
                  LAMBDA piece : piece # <<>>)

\* C31: parse splits a command string at every occurrence of ; | && || &
\* that is neither quoted nor escaped (the three stages of
\* cat file.txt | grep pattern | wc -l come out as three commands) and at no
\* separator inside '...', inside "..." or directly after a backslash: the
\* commands are the pieces of the string between those occurrences.
C31_SplitsAtLiveSeparatorsOnly ==
    (parseResult.done /\ PlainShell(parseInput)) =>
        parseResult.commands = ExpectedCommands(parseInput)

\* a string with a live separator and a quoted or escaped one was parsed
\* into several commands
C31_LiveAndQuotedSeparatorsWitness ==
    /\ parseResult.done /\ PlainShell(parseInput)
    /\ SplitPoints(parseInput) # {}
    /\ \E i \in 1..Len(parseInput) :
          /\ parseInput[i] \in {59, 124, 38}
          /\ QuotedAt(parseInput, i) \/ EscapedAt(parseInput, i)
    /\ Len(parseResult.commands) >= 2

\* the least member of a non-empty set of positions
FirstOf(positions) == CHOOSE i \in positions : \A j \in positions : i <= j

\* the $( ... ) spans, as <<first, last>>: from $( to the parenthesis that
\* closes it, the parentheses in between being balanced
DollarParenSpans(text) ==
    {<<i, FirstOf({j \in (i + 3)..Len(text) :
                      /\ text[j] = 41
                      /\ Cardinality({k \in (i + 2)..(j - 1) : text[k] = 40})
                            = Cardinality({k \in (i + 2)..(j - 1) : text[k] = 41})})>> :
        i \in {i \in 1..(Len(text) - 3) :
                 /\ text[i] = 36 /\ text[i + 1] = 40
                 /\ \E j \in (i + 3)..Len(text) :
                       /\ text[j] = 41
                       /\ Cardinality({k \in (i + 2)..(j - 1) : text[k] = 40})
                             = Cardinality({k \in (i + 2)..(j - 1) : text[k] = 41})}}

\* the backtick spans: from an opening backtick to the next one
BacktickSpans(text) ==
    {<<i, FirstOf({j \in (i + 2)..Len(text) : text[j] = 96})>> :
        i \in {i \in 1..(Len(text) - 2) :
                 /\ text[i] = 96
                 /\ Cardinality({k \in 1..(i - 1) : text[k] = 96}) % 2 = 0
                 /\ text[i + 1] # 96
                 /\ \E j \in (i + 2)..Len(text) : text[j] = 96}}

\* the ${ ... } spans whose content looks like a command
DollarBraceSpans(text) ==
    {sp \in {<<i, FirstOf({j \in (i + 3)..Len(text) : text[j] = 125})>> :
                i \in {i \in 1..(Len(text) - 3) :
                         /\ text[i] = 36 /\ text[i + 1] = 123 /\ text[i + 2] # 125
                         /\ \E j \in (i + 3)..Len(text) : text[j] = 125}} :
        CommandLike(SubSeq(text, sp[1] + 2, sp[2] - 1))}

\* what a span substitutes: the text between its delimiters
ContentOf(text, sp) ==
    SubSeq(text, sp[1] + (IF text[sp[1]] = 96 THEN 1 ELSE 2), sp[2] - 1)

SubstitutionSpans(text) ==
    DollarParenSpans(text) \cup BacktickSpans(text) \cup DollarBraceSpans(text)

\* a content that is one command as it stands: words with single blanks
SimpleCommand(content) ==
    /\ CharsOf(content) \cap {36, 96, 40, 41, 59, 124, 38, 34, 39, 92, 60, 62, 123, 125} = {}
    /\ content = Trim(content)
    /\ \A k \in 1..(Len(content) - 1) : ~(content[k] = 32 /\ content[k + 1] = 32)

\* C32: for every $(...) span, backtick span and command-like ${...} span
\* of the command string, parse reports the exact span in suspicious (for
\* nested spans, the outermost one) and gives the substituted content as a
\* command; of a nested substitution such as $(echo $(whoami)) the inner
\* command, whoami, is among the commands.
C32_SubstitutionsReported ==
    parseResult.done =>
        \A sp \in SubstitutionSpans(parseInput) :
            /\ (\A other \in SubstitutionSpans(parseInput) :
                    ~(other[1] < sp[1] /\ sp[2] < other[2])) =>
                  \E k \in 1..Len(parseResult.suspicious) :
                      parseResult.suspicious[k] = SubSeq(parseInput, sp[1], sp[2])
            /\ SimpleCommand(ContentOf(parseInput, sp)) =>
                  \E k \in 1..Len(parseResult.commands) :
                      parseResult.commands[k] = ContentOf(parseInput, sp)

----------------------------------------------------------------------------
(* Properties of the rate limiter and of the order of the checks           *)
(* (SpecRateLimit)                                                         *)

Begins(c) == calls[c].pc = "idle" /\ calls'[c].pc # "idle"

laterChecksOf ==
    [cfg \in RateConfigs, rq \in RateRequests |->
        << checkUser(cfg, rq[2]),
           checkCommandPolicy(cfg, CommandCatalogue[rq[1]]),
           checkDangerousFlags(CommandCatalogue[rq[1]]),
           checkPaths(CommandCatalogue[rq[1]]) >>]

\* C13: checkCommand returns the denial of the first failing check in the
\* order rate limit, user, command policy, flags, paths; a request failing
\* several checks gets the reason of the earliest.
C13_FirstFailingCheckDecides ==
    \A c \in Callers :
        (calls[c].pc = "done" /\ secConfig.enabled) =>
            LET later == laterChecksOf[secConfig, <<calls[c].cmd, calls[c].user>>]
            IN  calls[c].result =
                    IF ~calls[c].rateCheck.allowed THEN calls[c].rateCheck
                    ELSE IF ~later[1].allowed THEN later[1]
                    ELSE IF ~later[2].allowed THEN later[2]
                    ELSE IF ~later[3].allowed THEN later[3]
                    ELSE IF ~later[4].allowed THEN later[4]
                    ELSE AllowedResult

\* 'rm -rf /' as root was checked over the rate limit (it fails the rate,
\* the user and the command check), and once more within the limit (it
\* fails the user and the command check)
C13_SeveralFailuresWitness ==
    /\ secConfig.enabled
    /\ \E c \in Callers, d \in Callers :
          /\ calls[c].pc = "done" /\ calls[c].cmd = 6 /\ calls[c].user = "root"
          /\ ~calls[c].rateCheck.allowed
          /\ calls[d].pc = "done" /\ calls[d].cmd = 6 /\ calls[d].user = "root"
          /\ calls[d].rateCheck.allowed
          /\ calls[d].result = DeniedResult("Root user execution not allowed")

\* the window of key o that was open before this step: it began with its
\* first request and ends WindowTicks later
OpenWindow(o) == rateWindows[o][Len(rateWindows[o])]

\* C40: a window lasts windowMs from its first request, whatever arrives
\* inside it: the first check made more than windowMs after the window's
\* first request opens a new window with count 1 (and so is allowed), on
\* the in-memory backend and on the Redis backend alike, and the two
\* backends return the same count, hence the same decision, for every
\* check of the same timed sequence.
C40_FixedWindowOnBothBackends ==
    [][\A o \in Operations :
          rateWindows'[o] # rateWindows[o] =>
             /\ (rateWindows[o] # <<>> /\ clock > OpenWindow(o).resetAt) =>
                    /\ counts'[o].count = 1
                    /\ redisKeys'[o].count = 1
             /\ redisKeys'[o].count = counts'[o].count]_vars

----------------------------------------------------------------------------
(* Properties of the demultiplexer (SpecDemux) *)

\* the channel of a frame of stream type t
ChannelOf(t) == IF t = 1 THEN "stdout" ELSE "stderr"

\* one chunk per frame: its payload as text, on its channel
ExpectedChunks(segs) ==
    [k \in 1..Len(segs) |-> Chunk(ChannelOf(segs[k].type), ToStringUtf8(segs[k].payload))]

IsPrefix(a, b) == Len(a) <= Len(b) /\ a = SubSeq(b, 1, Len(a))

\* the bytes the source stream has delivered so far
Delivered == Len(BytesOfSegments(segments)) - Len(stream)

\* how many leading segments lie completely within the first n bytes
RECURSIVE CompleteSegments(_, _)
CompleteSegments(segs, n) ==
    IF segs = <<>> \/ Len(BytesOfSegment(Head(segs))) > n THEN 0
    ELSE 1 + CompleteSegments(Tail(segs), n - Len(BytesOfSegment(Head(segs))))

\* the text of a list of chunks, in emission order
RECURSIVE DataOf(_)
DataOf(cs) == IF cs = <<>> THEN <<>> ELSE Head(cs).data \o DataOf(Tail(cs))

\* the payloads of a list of segments, end to end
RECURSIVE PayloadsOf(_)
PayloadsOf(segs) == IF segs = <<>> THEN <<>> ELSE Head(segs).payload \o PayloadsOf(Tail(segs))

\* the bytes still to be processed: not yet read, buffered, or in the frame
\* being emitted
Remaining ==
    Len(stream) + Len(buffer) + (IF dpc = "payload" THEN Len(payload) - offset ELSE 0)

\* C15: for a well-formed framed stream, however it is split across reads,
\* the chunks emitted are the frames' payloads on the frames' channels in
\* arrival order, one per frame when chunkSize covers a payload, and nothing
\* is emitted for a frame before its header and payload have arrived.
C15_FramesEmittedInOrder ==
    (segments \in WellFormedStreams /\ chunkSize >= MaxFrameSize /\ dpc # "idle") =>
        /\ IsPrefix(yielded, ExpectedChunks(segments))
        /\ Len(yielded) <= CompleteSegments(segments, Delivered)
        /\ dpc = "done" => yielded = ExpectedChunks(segments)

\* C16: for every chunkSize >= 1, once the stream has ended every chunk is
\* at most chunkSize long and the chunks, end to end, are the text of the
\* frames' payloads (framed) or of the stream (unframed).
C16_ChunksReassembleInput ==
    (dpc = "done" /\ chunkSize >= 1
        /\ segments \in WellFormedStreams \cup {<<Raw(t)>> : t \in PlainTexts}) =>
        /\ \A k \in 1..Len(yielded) : Len(yielded[k].data) <= chunkSize
        /\ DataOf(yielded) = ToStringUtf8(PayloadsOf(segments))

\* C17: in a stream classified as framed where corruption is followed by a
\* valid frame, once the stream has ended that frame's payload has been
\* emitted as a chunk on the frame's channel, without its header.
C17_FrameAfterCorruptionEmitted ==
    (dpc = "done" /\ segments \in CorruptedStreams /\ isMultiplexed = "true"
        /\ chunkSize >= MaxFrameSize) =>
        \E k \in 1..Len(yielded) : yielded[k] = ExpectedChunks(segments)[3]

\* C18: the demultiplexer never drops input bytes silently: a step that
\* emits no chunk (and is not the overflow failure) leaves the number of
\* bytes still to be processed unchanged; recovery emits what it skips.
C18_NoByteDiscardedSilently ==
    [][(yielded' = yielded /\ dpc' # "failed") => Remaining' = Remaining]_vars

\* C19: the buffer never holds more than MAX_BUFFER_SIZE bytes, whatever the
\* sizes of the reads.
C19_BufferWithinCeiling == held <= MaxBufferSize

\* C20: every iteration of the slicing and frame loops strictly reduces the
\* bytes left to process: a step that emits a chunk from inside a loop
\* leaves fewer bytes than there were.
C20_LoopsConsumeInput ==
    [][(Len(yielded') > Len(yielded) /\ dpc' \in {"plain", "payload"})
          => Remaining' < Remaining]_vars

\* the buffer the frame loop looks at in this step: what was held and what
\* the read of this step delivers
Examined == buffer \o SubSeq(stream, 1, Len(stream) - Len(stream'))

HeaderPositions(buf) ==
    {i \in 1..(Len(buf) - HEADER_SIZE) :
        isValidHeader(BufSlice(buf, i, i + HEADER_SIZE))}

\* C37: once the recovery scan has found no valid header and the rest of
\* the buffer was yielded as plain stdout, framed parsing is over: every
\* later chunk is stdout and no later bytes are cut out as a frame's
\* payload; and the scan gives up only when no position of the buffer where
\* a full header fits, the last one included, holds a valid header.
C37_FramedParsingStopsAfterCorruption ==
    [][/\ gaveUp =>
            /\ \A k \in (Len(yielded) + 1)..Len(yielded') :
                   yielded'[k].channel = "stdout"
            /\ payload' = <<>>
       /\ (gaveUp' /\ ~gaveUp) => HeaderPositions(Examined) = {}]_vars

----------------------------------------------------------------------------
(* Properties of the circuit breaker (SpecBreaker) *)

LastEvent == brkLog.last

\* C21: from CLOSED the breaker opens exactly on the failure that makes
\* failureThreshold failures in a row (a success in between starts the count
\* again and leaves the breaker CLOSED), and a call made while it is OPEN and
\* the reset time lies ahead is rejected without its operation being invoked.
C21_OpensAfterThresholdFailures ==
    /\ (LastEvent.kind = "failure" /\ LastEvent.before = "CLOSED") =>
          (LastEvent.after = "OPEN" <=> brkLog.failureRun >= options.failureThreshold)
    /\ (LastEvent.kind = "success" /\ LastEvent.before = "CLOSED") =>
          LastEvent.after = "CLOSED"
    /\ (LastEvent.kind \in {"invoke", "reject"} /\ LastEvent.before = "OPEN"
           /\ LastEvent.at < LastEvent.due) =>
          /\ LastEvent.kind = "reject"
          /\ LastEvent.after = "OPEN"
          /\ ops[LastEvent.op] = [pc |-> "done", outcome |-> "rejected"]
    /\ state = "CLOSED" => brkLog.failureRun < options.failureThreshold

\* the breaker opened on the second failure in a row, after a success had
\* reset an earlier failure, and the next call was rejected
C21_OpenedAndRejectedWitness ==
    /\ options.failureThreshold = 2
    /\ ops[1].outcome = "failure" /\ ops[2].outcome = "success"
    /\ ops[3].outcome = "failure" /\ ops[4].outcome = "failure"
    /\ LastEvent.kind = "reject" /\ LastEvent.op = 5
    /\ state = "OPEN"

\* the transitions a breaker makes
Transitions ==
    {<<"CLOSED", "OPEN">>, <<"OPEN", "HALF_OPEN">>,
     <<"HALF_OPEN", "CLOSED">>, <<"HALF_OPEN", "OPEN">>}

\* C22: in HALF_OPEN the success that makes successThreshold successes
\* closes the breaker, any failure re-opens it with the reset time set to
\* the time of the failure plus resetTimeout, nothing else leaves HALF_OPEN;
\* and every change of state is one of the four transitions.
C22_HalfOpenTransitions ==
    /\ state = LastEvent.after
    /\ LastEvent.before # LastEvent.after =>
          <<LastEvent.before, LastEvent.after>> \in Transitions
    /\ LastEvent.before = "HALF_OPEN" =>
          CASE LastEvent.kind = "failure" ->
                  /\ LastEvent.after = "OPEN"
                  /\ nextAttempt = LastEvent.at + options.resetTimeout
            [] LastEvent.kind = "success" ->
                  LastEvent.after = IF brkLog.sinceHalfOpen >= options.successThreshold
                                    THEN "CLOSED" ELSE "HALF_OPEN"
            [] OTHER -> LastEvent.after = "HALF_OPEN"

\* a breaker that needs two successes was re-opened from HALF_OPEN by a
\* failure that came after the reset time of the first opening
C22_ReopenedWitness ==
    /\ LastEvent.kind = "failure" /\ LastEvent.before = "HALF_OPEN"
    /\ LastEvent.at > LastEvent.due
    /\ brkLog.sinceHalfOpen = 1
    /\ options.successThreshold = 2

\* C23: while the breaker is HALF_OPEN and the probe that made it so has
\* not settled, no other call's operation is invoked.
C23_OneProbeInHalfOpen ==
    (LastEvent.kind = "invoke" /\ LastEvent.before = "HALF_OPEN") =>
        ~LastEvent.probePending

\* the counters agree with the state
CountersAgree ==
    /\ state = "CLOSED" => failures < options.failureThreshold /\ successes = 0
    /\ successes > 0 => state = "HALF_OPEN"
    /\ successes < options.successThreshold

\* C38: in every state, however the calls interleave, CLOSED implies
\* failures < failureThreshold and successes = 0, successes > 0 only in
\* HALF_OPEN, successes < successThreshold; and a call rejected because the
\* breaker is OPEN changes neither the state, the counters nor the reset time.
C38_CountersAgreeWithState ==
    [][/\ CountersAgree
       /\ CountersAgree'
       /\ (\E c \in OpIds : ops[c].pc = "idle" /\ ops'[c].outcome = "rejected") =>
             UNCHANGED <<state, failures, successes, nextAttempt>>]_vars

\* the breaker closed again after two successes in HALF_OPEN, one call
\* having been rejected on the way
C38_ClosedAgainWitness ==
    /\ options.successThreshold = 2
    /\ state = "CLOSED"
    /\ LastEvent.kind = "success"
    /\ LastEvent.before = "HALF_OPEN"
    /\ \E c \in OpIds : ops[c].outcome = "rejected"
    /\ \E c \in OpIds : ops[c].pc = "running"

----------------------------------------------------------------------------
(* Properties of the tool-call handler (SpecHandler) *)

\* the requests checkCommand denied, once the handler is done with them
DeniedCalls ==
    {t \in ToolCallIds : toolCalls[t].pc = "done" /\ ~toolCalls[t].decision.allowed}

\* an entry of t marked blocked with the reason of its denial was written
BlockedEntryOf(t) ==
    \E k \in 1..Len(writeQueue) :
        writeQueue[k] = AuditEntry(t, TRUE, toolCalls[t].decision.reason)

\* C24, as stated: every denied docker_exec request has an audit entry marked
\* blocked that carries the denial reason, and DockerManager.exec (the only
\* way to a runtime exec, the live table and a concurrency slot) was never
\* called for it.
C24_DenialAuditedAndNotRun ==
    \A t \in DeniedCalls : BlockedEntryOf(t) /\ t \notin runtimeExecs

\* C24, amended: DockerManager.exec is never called for a denied request, and
\* while auditing is enabled and the audit logger has not been closed the
\* denied request has an audit entry marked blocked with the denial reason.
C24_DenialAuditedWhileLogging ==
    \A t \in DeniedCalls :
        /\ t \notin runtimeExecs
        /\ (auditEnabled /\ ~closed) => BlockedEntryOf(t)

\* a denied request with its blocked entry next to a request that ran
C24_DeniedNextToRunWitness ==
    \E t \in DeniedCalls, u \in ToolCallIds :
        /\ auditEnabled /\ ~closed
        /\ BlockedEntryOf(t)
        /\ t \notin runtimeExecs
        /\ u \in runtimeExecs
        /\ toolCalls[u].pc = "done"

\* the requests that were denied or that failed in the runtime
FailedCalls ==
    {t \in ToolCallIds :
        /\ toolCalls[t].pc = "done"
        /\ ~toolCalls[t].decision.allowed \/ toolCalls[t].raised # 0}

\* C25: a docker_exec request that is denied or fails in the runtime ends
\* with an error result, isError = true, whose body has the fields error and
\* code; nothing is thrown out of the handler.
C25_FailureGivesErrorResult ==
    \A t \in FailedCalls :
        /\ toolCalls[t].response.kind = "result"
        /\ toolCalls[t].response.isError
        /\ {"error", "code"} \subseteq toolCalls[t].response.fields

\* C26: every error message in a response (the error result of a buffered
\* exec, the exec_error record of a streamed one) is the sanitized form of the
\* message the runtime raised.
C26_ErrorMessagesSanitized ==
    \A t \in ToolCallIds :
        toolCalls[t].raised # 0 =>
            /\ toolCalls[t].response.isError =>
                  toolCalls[t].response.error = SanitizedMessages[toolCalls[t].raised]
            /\ toolCalls[t].record.type = "exec_error" =>
                  toolCalls[t].record.error = SanitizedMessages[toolCalls[t].raised]

----------------------------------------------------------------------------
(* Properties of the manager (Spec) *)

\* an execution is in progress from the start of its runtime exec until its
\* stream ended, it was cancelled or it failed
InProgress(r) == pc[r] \in {"started", "streaming"} /\ ~aborted[r]

\* C3: at no time are more than maxConcurrentExecs executions in progress,
\* streaming executions included.
C3_ExecutionsWithinLimit ==
    Cardinality({r \in Requests : InProgress(r)}) <= maxConcurrentExecs

\* C4: the live-session table never holds more than maxConcurrentExecs
\* sessions, whatever the interleaving of requests, sweeps and shutdown.
C4_TableWithinLimit == Len(execSessions) <= maxConcurrentExecs

\* the table is full while another request waits at the gate
C4_TableFullWitness ==
    /\ Len(execSessions) = maxConcurrentExecs
    /\ limitQueue # <<>>

\* C5: every session is in the live-session table for its entire active
\* lifetime, in buffered and in streaming mode.
C5_ActiveSessionInTable ==
    \A r \in Requests : InProgress(r) => r \in SeqRange(execSessions)

\* one step of the manager as cleanup() sees it
CleanupStep ==
    /\ (cleanup.phase = "idle" /\ cleanup'.phase # "idle") =>
          /\ ~sessionCleanupInterval'
          /\ cleanup'.phase = "aborting"
          /\ \A s \in SeqRange(execSessions) : aborted'[s] /\ s \in cleanup'.pending
    /\ cleanup.phase # "idle" => ~(sweep.phase = "idle" /\ sweep'.phase # "idle")
    /\ (cleanup.phase # "done" /\ cleanup'.phase = "done") =>
          /\ cleanup.phase = "aborting"
          /\ cleanup.pending = {}
          /\ execSessions' = <<>>
    /\ (cleanup' # cleanup /\ cleanup.pending # {}) => execSessions' = execSessions
    /\ \A s \in cleanup'.failed \ cleanup.failed :
          /\ cleanup'.phase = "aborting"
          /\ cleanup'.pending = cleanup.pending \ {s}
    /\ (cleanup.phase = "aborting" /\ cleanup.pending = {}) => ENABLED CleanupFinish

\* C27: cleanup() stops the sweep, calls abort() on every session of the live
\* table, empties the table only when every one of those cancellations has
\* settled, and a cancellation that fails counts as settled: it holds back
\* neither the other cancellations nor the end of cleanup().
C27_CleanupCancelsAll == [][CleanupStep]_vars

\* cleanup() ended with two sessions cancelled, one of them with a failure
C27_FailedCancelWitness ==
    /\ cleanup.phase = "done"
    /\ Cardinality(cleanup.targets) >= 2
    /\ cleanup.failed # {}
    /\ cleanup.failed # cleanup.targets
    /\ execSessions = <<>>

\* a session of the table whose age, at the sweep's Date.now(), is over the
\* staleness threshold
StaleAt(s) == s \in SeqRange(execSessions) /\ sweep.now - startTime[s] > StaleThreshold

\* one step of the manager as the sweep sees it, but for the end of the sweep
SweepStep ==
    /\ sweep' # sweep =>
          \A s \in Requests :
              (aborted'[s] # aborted[s] \/ (s \in SeqRange(execSessions)
                                                /\ s \notin SeqRange(execSessions')))
                  => StaleAt(s)
    /\ (sweep.phase = "scan" /\ sweep'.phase = "abort") =>
          StaleAt(sweep'.awaiting) /\ aborted'[sweep'.awaiting]
    /\ (sweep.phase = "scan" /\ sweep'.phase = "scan") =>
          \A s \in sweep'.visited \ sweep.visited : ~StaleAt(s)
    /\ (sweep.phase = "abort" /\ sweep' # sweep) =>
          /\ sweep'.phase = "scan"
          /\ sweep.awaiting \in sweep'.visited
          /\ sweep.awaiting \notin sweep'.failed => sweep.awaiting \notin SeqRange(execSessions')
    /\ (sweep.phase = "scan" /\ sweep'.phase = "idle") =>
          \A s \in SeqRange(execSessions) : s \in sweep.visited

SlotHolders == {r \in Requests : pc[r] \in {"creating", "started"}}

\* C29: a request leaves the gate only while fewer than maxConcurrentExecs
\* requests hold slots, and only when every request submitted before it has
\* left the gate (requests are submitted in the order of their numbers); its
\* runtime exec is created after that.
C29_GateIsFifo ==
    [][/\ Cardinality(SlotHolders) <= maxConcurrentExecs
       /\ \A r \in Requests :
             (pc[r] = "queued" /\ pc'[r] # "queued") =>
                 /\ pc'[r] = "creating"
                 /\ Cardinality(SlotHolders) < maxConcurrentExecs
                 /\ \A q \in Requests : q < r => pc[q] \notin {"idle", "queued"}
       /\ \A r \in Requests :
             (pc[r] # "started" /\ pc'[r] = "started") => pc[r] = "creating"]_vars

\* the second request runs in the only slot while the third waits
C29_WaitingBehindWitness ==
    /\ maxConcurrentExecs = 1
    /\ pc[1] \in {"done", "streaming"}
    /\ pc[2] = "started"
    /\ pc[3] = "queued"

\* the exec calls that have settled: with a result, or with the generator of
\* a streaming session
SettledCalls == {r \in Requests : pc[r] \in {"done", "streaming"}}

\* C36: once a DockerManager.exec call has settled, by whatever path, its
\* session is not in the live table and its slot is released (the slots taken
\* are those of the calls still running), so a waiting request can start as
\* soon as fewer than maxConcurrentExecs calls run; deleting an absent
\* session leaves the table as it is.
C36_SettledCallHoldsNothing ==
    /\ \A r \in SettledCalls : r \notin SeqRange(execSessions)
    /\ activeCount = Cardinality(SlotHolders)
    /\ (Alive /\ limitQueue # <<>> /\ Cardinality(SlotHolders) < maxConcurrentExecs)
          => ENABLED LimitDequeue
    /\ \A r \in Requests \ SeqRange(execSessions) :
          MapDelete(execSessions, r) = execSessions

\* with one slot: the first call ended cancelled, the second failed to
\* create its exec, and the third, which waited behind them, runs
C36_ThirdRunsWitness ==
    /\ maxConcurrentExecs = 1
    /\ pc[1] = "done" /\ result[1] = "cancelled"
    /\ pc[2] = "done" /\ result[2] = "error"
    /\ pc[3] = "started"
    /\ execSessions = <<3>>

----------------------------------------------------------------------------
(* Properties of one session (SpecSession) *)

\* C6: a session whose timer expired while its stream was open ends with a
\* cancelled result, cancelled = true and reason = "timeout", and never
\* throws.
C6_TimeoutGivesCancelledResult ==
    (timedOut /\ Terminal) =>
        /\ spc # "threw"
        /\ sresult.cancelled
        /\ sresult.reason = "timeout"

\* C7: abort() on a session that is already cancelled is a no-op: it sends
\* no resize or kill, arms no timer and cancels no pending force-kill.
C7_RepeatedAbortIsNoOp ==
    \A c \in AbortIds :
        abortCalls[c].repeat =>
            /\ abortCalls[c].sent = {}
            /\ ~abortCalls[c].armed
            /\ ~abortCalls[c].cleared

\* C8: abort() never rejects, whichever of its steps fails, and the
\* force-kill callback raises no unhandled error.
C8_AbortNeverThrows ==
    \A c \in AbortIds :
        /\ abortCalls[c].pc # "rejected"
        /\ forceKill[c] \notin {"unhandled", "rejected"}

\* an abort() call resolved after one of its steps had failed
C8_FailedStepWitness ==
    \E c \in AbortIds : abortCalls[c].pc = "resolved" /\ abortCalls[c].failed

\* C9: a buffered response past the cap reports truncated = true and an
\* outputBytes no larger than config.maxBytes.
C9_BufferedOutputBytesWithinCap ==
    (~params.stream /\ spc = "returned" /\ sresult.kind = "completed") =>
        /\ sresult.outputBytes <= configMaxBytes
        /\ (outputBytes > configMaxBytes => sresult.truncated)

\* C33: the exit code is assigned at most once, from the inspect that
\* follows the end of the output loop; it is absent until then, never changes
\* afterwards, and is never assigned in a session that ends cancelled or
\* failed.
C33_ExitCodeSetOnce ==
    [][/\ exitCode' # exitCode =>
             /\ exitCode = "null"
             /\ spc \in {"inspect", "genInspect"}
             /\ sresult'.kind \in {"completed", "exec_complete"}
       /\ exitCode # "null" =>
             /\ spc \in {"returned", "genDone"}
             /\ sresult.kind \in {"completed", "exec_complete"}
             /\ exitCode' = exitCode
       /\ (Terminal' /\ sresult'.kind \notin {"completed", "exec_complete"}) =>
             exitCode' = "null"]_vars

\* a buffered session completed with its exit code although abort() had
\* been called while it awaited inspect
C33_CompletedDespiteAbortWitness ==
    /\ ~params.stream
    /\ spc = "returned"
    /\ sresult.kind = "completed"
    /\ exitCode = "set"
    /\ signalAborted

\* the steps one abort() call takes, in the order of the code
AbortOrder(c) ==
    /\ (abortCalls'[c].pc = "resize" /\ abortCalls[c].pc # "resize") =>
          abortCalls[c].pc = "inspect" /\ procRunning
    /\ ("resize" \in abortCalls'[c].sent /\ "resize" \notin abortCalls[c].sent) =>
          abortCalls[c].pc = "resize" /\ abortCalls[c].sent = {}
    /\ (abortCalls'[c].pc = "killCreate" /\ abortCalls[c].pc # "killCreate") =>
          abortCalls[c].pc = "resize" /\ abortCalls[c].pid > 0
    /\ ("TERM" \in abortCalls'[c].sent /\ "TERM" \notin abortCalls[c].sent) =>
          /\ abortCalls[c].pc = "killStart"
          /\ abortCalls[c].pid > 0
          /\ "KILL" \notin abortCalls[c].sent
    /\ (forceKill'[c] = "pending" /\ forceKill[c] # "pending") =>
          "TERM" \in abortCalls'[c].sent
    /\ (forceKill'[c] = "killCreate" /\ forceKill[c] # "killCreate") =>
          forceKill[c] = "inspect" /\ procRunning
    /\ ("KILL" \in abortCalls'[c].sent /\ "KILL" \notin abortCalls[c].sent) =>
          /\ "TERM" \in abortCalls[c].sent
          /\ forceKill[c] = "killStart"
    /\ (abortCalls[c].pc = "inspect" /\ abortCalls'[c].pc # "inspect" /\ ~procRunning) =>
          abortCalls'[c].pc = "resolved" /\ abortCalls'[c].sent = {}
    /\ (abortCalls[c].pc = "resolved" /\ ~abortCalls[c].armed) =>
          abortCalls'[c] = abortCalls[c]

\* C34: in an abort() of a session whose process is reported running the
\* resize comes first, kill -TERM only with a known process ID and after the
\* resize attempt, kill -KILL only once the force-kill timer has fired after
\* the TERM and the process is still reported running; no kill -KILL without
\* a kill -TERM before it, and nothing is sent when the process is reported
\* not running.
C34_KillEscalationInOrder == [][\A c \in AbortIds : AbortOrder(c)]_vars

\* an abort() that went all the way: resize, kill -TERM, kill -KILL
C34_FullEscalationWitness ==
    \E c \in AbortIds :
        /\ abortCalls[c].sent = {"resize", "TERM", "KILL"}
        /\ forceKill[c] = "done"
        /\ ~procRunning

\* C35: a session reaches one terminal outcome and nothing changes it
\* afterwards, also when a timeout or abort() races with the end: the one
\* result of a buffered exec, or the last record of a streaming exec, which
\* is one of exec_complete, exec_cancelled, exec_error, with no exec_chunk
\* after it; the timeout timer cannot fire once the outcome is reached.
C35_OneTerminalOutcome ==
    [][Terminal =>
          /\ spc' = spc
          /\ sresult' = sresult
          /\ exitCode' = exitCode
          /\ outputBytes' = outputBytes
          /\ timeoutHandle # "armed"
          /\ spc = "genDone" =>
                sresult.kind \in {"exec_complete", "exec_cancelled", "exec_error"}
          /\ spc = "returned" => sresult.kind \in {"completed", "cancelled"}
          /\ spc = "threw" => sresult.kind = "error"]_vars

\* a streaming session that ended with exec_cancelled after a chunk, its
\* timer having fired, while abort() still runs
C35_CancelledStreamWitness ==
    /\ params.stream
    /\ spc = "genDone"
    /\ sresult.kind = "exec_cancelled"
    /\ chunks > 0
    /\ timeoutHandle = "fired"
    /\ abortCalls[TimerCall].pc \notin {"none", "resolved"}

----------------------------------------------------------------------------
(* Properties of the buffer (SpecBuffer) *)

\* C10: after any sequence of pushes the bytes the buffer retains never
\* exceed maxBytes (for every maxBytes >= 1 and every item content).
C10_RetainedBytesWithinCap ==
    /\ BytesOf(cbuf.buffer) <= cbuf.maxBytes
    /\ CbGetBytes(cbuf) <= cbuf.maxBytes

\* every item pushed so far was no larger than maxBytes
AllWithinMaxBytes ==
    \A i \in 1..Len(cbPushed) : ByteLength(cbPushed[i]) <= cbuf.maxBytes

\* C30: after pushes of items each no larger than maxBytes (maxItems >= 1) the
\* buffer holds at most maxItems items, the items it holds are the last ones
\* pushed, in push order, and the most recent item is among them, as pushed.
C30_RetainsNewestSuffix ==
    (AllWithinMaxBytes /\ cbPushed # <<>>) =>
        /\ Len(cbuf.buffer) <= cbuf.maxItems
        /\ Len(cbuf.buffer) >= 1
        /\ cbuf.buffer = SubSeq(cbPushed, Len(cbPushed) - Len(cbuf.buffer) + 1, Len(cbPushed))
        /\ cbuf.buffer[Len(cbuf.buffer)] = cbPushed[Len(cbPushed)]

\* three pushes within maxBytes, the oldest evicted
C30_OldestEvictedWitness ==
    /\ AllWithinMaxBytes
    /\ Len(cbPushed) = 3
    /\ cbuf.maxItems = 2
    /\ cbuf.buffer = <<cbPushed[2], cbPushed[3]>>
    /\ cbPushed[1] # cbPushed[2]

====
